---- MODULE Spec2Model ----
(***************************************************************************)
(* Dual-source audio capture engine: the host-facing session lifecycle of  *)
(* src-native/src/lib.rs (start_audio_capture, stop_audio_capture, the     *)
(* queries) over the capture engine of src-native/src/macos/audio.rs (the  *)
(* global buffers, the two backend callbacks, build_stereo_chunks,         *)
(* start_capture and stop_capture).                                        *)
(*                                                                         *)
(* Threads: the host callers (each runs one async start or stop at a       *)
(* time), the system-audio callback thread "sys" (on_system_audio) and the *)
(* microphone tap thread "mic".  Every step below is one lock scope or one *)
(* atomic store of the source, so that the interleavings of the code are   *)
(* the interleavings of the model; where a run of them is taken as one     *)
(* step, the comment of the step says so.                                  *)
(*                                                                         *)
(* Numbers: an f32 sample s is the integer 8*s (so 8 is 1.0, 4 is 0.5); a  *)
(* raw byte buffer is the sequence of its f32 words (4 bytes each); the    *)
(* level is kept in hundredths.                                            *)
(***************************************************************************)
EXTENDS Integers, Sequences, FiniteSets, TLC

\* ------------------------------------------------------------------ bounds
\* The window of build_stereo_chunks (audio.rs:151, chunk_size = 1600 in the
\* source), scaled down so that buffers stay short; every formula below is
\* stated in terms of chunk_size, never of its value.
chunk_size == 2
\* Accepted start_audio_capture calls (calls that pass the already-capturing
\* check) in one run.
MaxStarts == 2
\* Callbacks a source ingests before its callback counter stops the run of
\* that source (SYSTEM_CALLBACK_COUNT and MIC_CALLBACK_COUNT are unbounded in
\* the source): PipelineSpec, one host caller and both sources.
MaxCallbacks == 2
\* The same cap under Spec, two host callers and the system source.
LifecycleCallbacks == 1
\* The longest buffer, in samples, a backend hands over under IngestSpec.
MaxLen == 4

\* --------------------------------------------------------------- constants
target_rate == 16000
\* A source's callback runs the builder when its callback count is a multiple
\* of build_every (audio.rs:286 and 403).
build_every == 5
\* Under SteadySpec the system source delivers build_every + 1 buffers a
\* session: its first callback runs the builder, the next four do not, the
\* last one does again.
SteadyCallbacks == build_every + 1
mic_sample_rate == 48000
\* The tap logs the buffer lengths when its callback count is a multiple of
\* log_every (audio.rs:407).
log_every == 100

Callers == {"h1", "h2"}
SYS == "sys"
MIC == "mic"
Threads == Callers \cup {SYS, MIC}
NULL == "null"
\* Option::None, for AUDIO_ENGINE and for a stop's taken state.
None == [is_some |-> FALSE, is_capturing |-> FALSE, output_path |-> "", sid |-> 0]
\* No buffer in hand (a callback that is not running).
NoData == [samples |-> <<>>, rate |-> 0, channels |-> 0, epoch |-> 0]

\* The output path the host supplies with its n-th accepted start call.
PathOf(n) == "/tmp/capture" \o ToString(n) \o ".wav"

VARIABLES
    AUDIO_ENGINE,            \* lib.rs:43  None or the AudioCaptureState
    CURRENT_LEVEL,           \* audio.rs:78 (hundredths)
    IS_CAPTURING,            \* audio.rs:79
    SAMPLE_RATE,             \* audio.rs:80
    CHANNELS,                \* audio.rs:81
    SYSTEM_AUDIO_DATA,       \* audio.rs:84 archival, system
    MIC_AUDIO_DATA,          \* audio.rs:85 archival, microphone
    AUDIO_CHUNK_QUEUE,       \* audio.rs:89
    SYSTEM_BUFFER,           \* audio.rs:92 realtime, system
    MIC_BUFFER,              \* audio.rs:93 realtime, microphone
    ACTIVE_STREAM,           \* audio.rs:95 NULL or "stream"
    MIC_ENGINE,              \* audio.rs:97 NULL or "engine"
    SYSTEM_CALLBACK_COUNT,   \* audio.rs:213
    MIC_CALLBACK_COUNT,      \* audio.rs:359
    rt_lock,                 \* holder of the SYSTEM_BUFFER and MIC_BUFFER guards of a builder pass
    live_streams,            \* SCStreams started and not stopped (the backend's side)
    live_mics,               \* AVAudioEngines started and not stopped
    pc,                      \* position of every thread
    include_mic,             \* start: opts.include_microphone of the call in flight, then what
                             \* became of the microphone: "off", "wanted", "started", "failed"
    capture_state,           \* stop: the AudioCaptureState taken, or None
    cb_data,                 \* callback: the buffer being ingested
    returned,                \* the host call that returned last: who, and what it got
    n_starts,                \* accepted starts so far
    sid,                     \* start: the number of the call in flight (names its session)
    wav_writes,              \* per session, how many times write_wav wrote its file
    built_chunks,            \* the chunks pushed since the last clear of the queue, in the order pushed
    drained_chunks           \* what get_audio_chunks has returned since then, call after call

vars == <<AUDIO_ENGINE, CURRENT_LEVEL, IS_CAPTURING, SAMPLE_RATE, CHANNELS,
          SYSTEM_AUDIO_DATA, MIC_AUDIO_DATA, AUDIO_CHUNK_QUEUE, SYSTEM_BUFFER,
          MIC_BUFFER, ACTIVE_STREAM, MIC_ENGINE, SYSTEM_CALLBACK_COUNT,
          MIC_CALLBACK_COUNT, rt_lock, live_streams, live_mics, pc,
          include_mic, capture_state, cb_data, returned, n_starts, sid, wav_writes,
          built_chunks, drained_chunks>>

engine_vars == <<IS_CAPTURING, SYSTEM_AUDIO_DATA, MIC_AUDIO_DATA,
                 AUDIO_CHUNK_QUEUE, SYSTEM_BUFFER, MIC_BUFFER, ACTIVE_STREAM,
                 MIC_ENGINE, live_streams, live_mics>>

\* ----------------------------------------------------------------- helpers
Min(a, b) == IF a <= b THEN a ELSE b
Max(a, b) == IF a >= b THEN a ELSE b

\* Rust's float-to-integer `as`: truncation toward zero.
Trunc(a, b) == IF a >= 0 THEN a \div b ELSE -((-a) \div b)

Clamp(v, lo, hi) == IF v < lo THEN lo ELSE IF v > hi THEN hi ELSE v

\* i16::to_le_bytes
to_le_bytes(v) ==
    LET u == IF v < 0 THEN v + 65536 ELSE v
    IN  <<u % 256, u \div 256>>

\* (x.clamp(-1.0, 1.0) * 32767.0) as i16, for x = num/den
quantize(num, den) == Trunc(Clamp(num, -den, den) * 32767, den)

Isqrt(x) == CHOOSE r \in 0..100 : r * r <= x /\ x < (r + 1) * (r + 1)

RECURSIVE SumSq(_)
SumSq(s) == IF s = <<>> THEN 0 ELSE Head(s) * Head(s) + SumSq(Tail(s))

\* calc_level: min(1, 2 * rms), in hundredths
calc_level(data) ==
    IF Len(data) = 0 THEN 0
    ELSE LET x == (4 * 10000 * SumSq(data)) \div (Len(data) * 64)
         IN  IF x >= 10000 THEN 100 ELSE Isqrt(x)

\* on_system_audio, lines 259-265: two channels are averaged per frame (a
\* trailing odd sample is averaged with 0.0), any other count is left as is.
downmix(samples, channels) ==
    IF channels = 2
    THEN [k \in 1..((Len(samples) + 1) \div 2) |->
            (samples[2 * k - 1]
             + (IF 2 * k <= Len(samples) THEN samples[2 * k] ELSE 0)) \div 2]
    ELSE samples

\* A variant that hands the samples on at the source rate.
resample_none(mono, rate) == mono

\* A variant that reads the sample after the source position.
resample_next(mono, rate) ==
    LET output_len == IF rate = 0 THEN 0 ELSE (Len(mono) * target_rate) \div rate
    IN  [i \in 1..output_len |->
            LET src_idx == ((i - 1) * rate) \div target_rate
            IN  IF src_idx + 2 <= Len(mono) THEN mono[src_idx + 2] ELSE 0]

\* Lines 268-270 and 384-386 at a source rate of 0: resample_ratio is
\* infinite, output_len is (len * inf) as usize = usize::MAX for a non-empty
\* buffer (NaN as usize = 0 for an empty one), and Vec::with_capacity panics
\* with a capacity overflow.
resample_panics(mono, rate) == rate = 0 /\ Len(mono) > 0

\* The panic is raised inside the extern "C" callback (line 216) or inside
\* the tap block called by AVAudioEngine (line 362).  Unwinding out of either
\* is at best an abort of the process and otherwise undefined: the process
\* ends, or the callback is cut short where it stands and the process goes on
\* (that source then delivers nothing more here).
PanicOutcomes == {"aborted", "unwound"}

\* Linear-interpolation resampling to 16 kHz (lines 268-280 and 384-396);
\* output_len is the product truncated (`as usize`).
resample(mono, rate) ==
    LET output_len == IF rate = 0 THEN 0 ELSE (Len(mono) * target_rate) \div rate
        get(k) == IF k + 1 <= Len(mono) THEN mono[k + 1] ELSE 0
        out(i) ==
            LET src_idx == (i * rate) \div target_rate
                rem     == (i * rate) % target_rate
                s0      == get(src_idx)
                s1      == IF src_idx + 2 <= Len(mono) THEN mono[src_idx + 2] ELSE s0
            IN  s0 + Trunc((s1 - s0) * rem, target_rate)
    IN  [i \in 1..output_len |-> out(i - 1)]

\* A variant with the channels exchanged.
frame_swapped(system, mic, i) ==
    to_le_bytes(quantize(IF i <= Len(mic) THEN 3 * mic[i] ELSE 0, 16))
    \o to_le_bytes(quantize(IF i <= Len(system) THEN system[i] ELSE 0, 8))

\* One stereo frame of a chunk: left = system, right = microphone * 1.5.
frame(system, mic, i) ==
    to_le_bytes(quantize(IF i <= Len(system) THEN system[i] ELSE 0, 8))
    \o to_le_bytes(quantize(IF i <= Len(mic) THEN 3 * mic[i] ELSE 0, 16))

RECURSIVE stereo_chunk(_, _, _)
stereo_chunk(system, mic, n) ==
    IF n = 0 THEN <<>>
    ELSE stereo_chunk(system, mic, n - 1) \o frame(system, mic, n)

\* A variant that leaves a buffer holding fewer than n samples as it is.
drain_keep(buf, n) == IF n <= Len(buf) THEN SubSeq(buf, n + 1, Len(buf)) ELSE buf

\* Vec::drain(..n), or clear() when fewer than n are held (lines 178-187).
drain(buf, n) == IF n <= Len(buf) THEN SubSeq(buf, n + 1, Len(buf)) ELSE <<>>

\* ------------------------------------------------------------------ inputs
\* Sample values: the k-th sample a source hands to its realtime buffer in a
\* session is 1 + (k - 1) % 8 (0.125 .. 1.0), so that samples and chunks can
\* be told apart.
Value(k) == 1 + ((k - 1) % 8)
\* What the system backend delivers: stereo frames at 48 kHz (the format
\* setup_system_audio_capture configures, lines 567-568), one window of
\* samples after down-mix and resampling.
SysDeliveries ==
    { [samples |-> [j \in 1..(6 * chunk_size) |->
                       Value(SYSTEM_CALLBACK_COUNT * chunk_size + 1 + (j - 1) \div 6)],
       rate |-> 48000, channels |-> 2, epoch |-> n_starts] }
\* What the microphone tap delivers (first channel, at mic_sample_rate): one
\* sample after resampling.
MicDeliveries ==
    { [samples |-> [j \in 1..3 |-> Value(MIC_CALLBACK_COUNT + 1)],
       rate |-> mic_sample_rate, channels |-> 1, epoch |-> n_starts] }

\* ----------------------------------------------------------------- queries
\* A variant that answers from the engine's running flag instead of the
\* registered session.
is_capturing_by_flag == IS_CAPTURING

is_capturing == AUDIO_ENGINE.is_some /\ AUDIO_ENGINE.is_capturing
has_audio_chunks == AUDIO_CHUNK_QUEUE # <<>>
get_current_level == CURRENT_LEVEL

Init ==
    /\ AUDIO_ENGINE = None
    /\ CURRENT_LEVEL = 0
    /\ IS_CAPTURING = FALSE
    /\ SAMPLE_RATE = 48000
    /\ CHANNELS = 2
    /\ SYSTEM_AUDIO_DATA = <<>>
    /\ MIC_AUDIO_DATA = <<>>
    /\ AUDIO_CHUNK_QUEUE = <<>>
    /\ SYSTEM_BUFFER = <<>>
    /\ MIC_BUFFER = <<>>
    /\ ACTIVE_STREAM = NULL
    /\ MIC_ENGINE = NULL
    /\ SYSTEM_CALLBACK_COUNT = 0
    /\ MIC_CALLBACK_COUNT = 0
    /\ rt_lock = NULL
    /\ live_streams = 0
    /\ live_mics = 0
    /\ pc = [t \in Threads |-> "idle"]
    /\ include_mic = [c \in Callers |-> "off"]
    /\ capture_state = [c \in Callers |-> None]
    /\ cb_data = [t \in {SYS, MIC} |-> NoData]
    /\ returned = [caller |-> NULL, value |-> "none"]
    /\ n_starts = 0
    /\ sid = [c \in Callers |-> 0]
    /\ wav_writes = [s \in 1..MaxStarts |-> 0]
    /\ built_chunks = <<>>
    /\ drained_chunks = <<>>

\* ------------------------------------------------- build_stereo_chunks
\* Where a thread continues after its builder pass: stop_capture goes on to
\* take the archival buffers, a callback returns.
AfterBuild(t) == IF t \in Callers THEN "t_take" ELSE "idle"

\* A variant that goes into the loop without the guards being free.
BuildEnter_unguarded(t) ==
    /\ pc[t] = "build"
    /\ IF SYSTEM_BUFFER = <<>> /\ MIC_BUFFER = <<>>
       THEN /\ pc' = [pc EXCEPT ![t] = AfterBuild(t)]
            /\ UNCHANGED rt_lock
       ELSE /\ pc' = [pc EXCEPT ![t] = "build_loop"]
            /\ rt_lock' = t
    /\ UNCHANGED <<AUDIO_ENGINE, CURRENT_LEVEL, IS_CAPTURING, SAMPLE_RATE, CHANNELS,
                   SYSTEM_AUDIO_DATA, MIC_AUDIO_DATA, AUDIO_CHUNK_QUEUE, SYSTEM_BUFFER,
                   MIC_BUFFER, ACTIVE_STREAM, MIC_ENGINE, SYSTEM_CALLBACK_COUNT,
                   MIC_CALLBACK_COUNT, live_streams, live_mics,
                   include_mic, capture_state, cb_data, returned, n_starts, sid, wav_writes,
                   built_chunks, drained_chunks>>

\* Lines 136-141: both realtime guards are taken (blocking); an empty pair
\* returns at once.
BuildEnter(t) ==
    /\ pc[t] = "build"
    /\ rt_lock = NULL
    /\ IF SYSTEM_BUFFER = <<>> /\ MIC_BUFFER = <<>>
       THEN /\ pc' = [pc EXCEPT ![t] = AfterBuild(t)]
            /\ UNCHANGED rt_lock
       ELSE /\ pc' = [pc EXCEPT ![t] = "build_loop"]
            /\ rt_lock' = t
    /\ UNCHANGED <<AUDIO_ENGINE, CURRENT_LEVEL, IS_CAPTURING, SAMPLE_RATE, CHANNELS,
                   SYSTEM_AUDIO_DATA, MIC_AUDIO_DATA, AUDIO_CHUNK_QUEUE, SYSTEM_BUFFER,
                   MIC_BUFFER, ACTIVE_STREAM, MIC_ENGINE, SYSTEM_CALLBACK_COUNT,
                   MIC_CALLBACK_COUNT, live_streams, live_mics,
                   include_mic, capture_state, cb_data, returned, n_starts, sid, wav_writes,
                   built_chunks, drained_chunks>>

\* A variant of the loop condition that waits for a window on both sides.
BuildMore_both == Len(SYSTEM_BUFFER) >= chunk_size /\ Len(MIC_BUFFER) >= chunk_size

\* A variant of the loop condition that goes on while any sample is left.
BuildMore_any == Len(SYSTEM_BUFFER) > 0 \/ Len(MIC_BUFFER) > 0

\* The loop condition of line 154.
BuildMore == Len(SYSTEM_BUFFER) >= chunk_size \/ Len(MIC_BUFFER) >= chunk_size

\* A variant that pushes at the head of the queue.
push_front(q, x) == <<x>> \o q

\* VecDeque::push_back (line 175).
push_back(q, x) == Append(q, x)

\* One iteration of the loop, lines 155-187.
BuildIter(t) ==
    /\ pc[t] = "build_loop"
    /\ rt_lock = t
    /\ BuildMore
    /\ LET samples_to_process ==
               Min(chunk_size, Max(Len(SYSTEM_BUFFER), Len(MIC_BUFFER)))
           chunk == stereo_chunk(SYSTEM_BUFFER, MIC_BUFFER, samples_to_process)
       IN  /\ AUDIO_CHUNK_QUEUE' = push_back(AUDIO_CHUNK_QUEUE, chunk)
           /\ built_chunks' = Append(built_chunks, chunk)
           /\ SYSTEM_BUFFER' = drain(SYSTEM_BUFFER, samples_to_process)
           /\ MIC_BUFFER' = drain(MIC_BUFFER, samples_to_process)
    /\ UNCHANGED <<AUDIO_ENGINE, CURRENT_LEVEL, IS_CAPTURING, SAMPLE_RATE, CHANNELS,
                   SYSTEM_AUDIO_DATA, MIC_AUDIO_DATA, ACTIVE_STREAM, MIC_ENGINE,
                   SYSTEM_CALLBACK_COUNT, MIC_CALLBACK_COUNT, rt_lock, live_streams,
                   live_mics, pc, include_mic, capture_state, cb_data, returned,
                   n_starts, sid, wav_writes, drained_chunks>>

\* The loop ends and the guards are dropped (line 189).
BuildExit(t) ==
    /\ pc[t] = "build_loop"
    /\ rt_lock = t
    /\ ~BuildMore
    /\ rt_lock' = NULL
    /\ pc' = [pc EXCEPT ![t] = AfterBuild(t)]
    /\ UNCHANGED <<AUDIO_ENGINE, CURRENT_LEVEL, IS_CAPTURING, SAMPLE_RATE, CHANNELS,
                   SYSTEM_AUDIO_DATA, MIC_AUDIO_DATA, AUDIO_CHUNK_QUEUE, SYSTEM_BUFFER,
                   MIC_BUFFER, ACTIVE_STREAM, MIC_ENGINE, SYSTEM_CALLBACK_COUNT,
                   MIC_CALLBACK_COUNT, live_streams, live_mics,
                   include_mic, capture_state, cb_data, returned, n_starts, sid, wav_writes,
                   built_chunks, drained_chunks>>

\* ------------------------------------------------------ on_system_audio
\* A variant that stores the level only while the running flag is set.
SysEnter_gated(d, cap) ==
    /\ pc[SYS] = "idle"
    /\ live_streams > 0
    /\ SYSTEM_CALLBACK_COUNT < cap
    /\ SAMPLE_RATE' = d.rate
    /\ CHANNELS' = d.channels
    /\ IF IS_CAPTURING
       THEN /\ CURRENT_LEVEL' = calc_level(d.samples)
            /\ pc' = [pc EXCEPT ![SYS] = "arch"]
            /\ cb_data' = [cb_data EXCEPT ![SYS] = d]
       ELSE UNCHANGED <<CURRENT_LEVEL, pc, cb_data>>
    /\ UNCHANGED <<AUDIO_ENGINE, IS_CAPTURING, SYSTEM_AUDIO_DATA, MIC_AUDIO_DATA,
                   AUDIO_CHUNK_QUEUE, SYSTEM_BUFFER, MIC_BUFFER, ACTIVE_STREAM,
                   MIC_ENGINE, SYSTEM_CALLBACK_COUNT, MIC_CALLBACK_COUNT, rt_lock,
                   live_streams, live_mics, include_mic, capture_state, returned,
                   n_starts, sid, wav_writes,
                   built_chunks, drained_chunks>>

\* Lines 216-243: the format and the level are stored whatever the capture
\* state; the running flag decides whether the buffer is ingested.
SysEnter(d, cap) ==
    /\ pc[SYS] = "idle"
    /\ live_streams > 0
    /\ SYSTEM_CALLBACK_COUNT < cap
    /\ SAMPLE_RATE' = d.rate
    /\ CHANNELS' = d.channels
    /\ CURRENT_LEVEL' = calc_level(d.samples)
    /\ IF IS_CAPTURING
       THEN /\ pc' = [pc EXCEPT ![SYS] = "arch"]
            /\ cb_data' = [cb_data EXCEPT ![SYS] = d]
       ELSE UNCHANGED <<pc, cb_data>>
    /\ UNCHANGED <<AUDIO_ENGINE, IS_CAPTURING, SYSTEM_AUDIO_DATA, MIC_AUDIO_DATA,
                   AUDIO_CHUNK_QUEUE, SYSTEM_BUFFER, MIC_BUFFER, ACTIVE_STREAM,
                   MIC_ENGINE, SYSTEM_CALLBACK_COUNT, MIC_CALLBACK_COUNT, rt_lock,
                   live_streams, live_mics, include_mic, capture_state, returned,
                   n_starts, sid, wav_writes,
                   built_chunks, drained_chunks>>

\* Line 245.
SysArchive ==
    /\ pc[SYS] = "arch"
    /\ SYSTEM_AUDIO_DATA' = SYSTEM_AUDIO_DATA \o cb_data[SYS].samples
    /\ pc' = [pc EXCEPT ![SYS] = "rt"]
    /\ UNCHANGED <<AUDIO_ENGINE, CURRENT_LEVEL, IS_CAPTURING, SAMPLE_RATE, CHANNELS,
                   MIC_AUDIO_DATA, AUDIO_CHUNK_QUEUE, SYSTEM_BUFFER, MIC_BUFFER,
                   ACTIVE_STREAM, MIC_ENGINE, SYSTEM_CALLBACK_COUNT, MIC_CALLBACK_COUNT,
                   rt_lock, live_streams, live_mics, include_mic, capture_state,
                   cb_data, returned, n_starts, sid, wav_writes,
                   built_chunks, drained_chunks>>

\* Lines 249-288: down-mix and resample by the stored format, append, count
\* the callback; every 5th callback runs the builder.
SysRealtime ==
    /\ pc[SYS] = "rt"
    /\ LET mono_samples == downmix(cb_data[SYS].samples, CHANNELS)
       IN  IF resample_panics(mono_samples, SAMPLE_RATE)
           THEN /\ \E outcome \in PanicOutcomes : pc' = [pc EXCEPT ![SYS] = outcome]
                /\ UNCHANGED <<SYSTEM_BUFFER, SYSTEM_CALLBACK_COUNT, cb_data>>
           ELSE /\ rt_lock = NULL
                /\ SYSTEM_BUFFER' = SYSTEM_BUFFER \o resample(mono_samples, SAMPLE_RATE)
                /\ SYSTEM_CALLBACK_COUNT' = SYSTEM_CALLBACK_COUNT + 1
                /\ pc' = [pc EXCEPT ![SYS] = IF SYSTEM_CALLBACK_COUNT % build_every = 0
                                             THEN "build" ELSE "idle"]
                /\ cb_data' = [cb_data EXCEPT ![SYS] = NoData]
    /\ UNCHANGED <<AUDIO_ENGINE, CURRENT_LEVEL, IS_CAPTURING, SAMPLE_RATE, CHANNELS,
                   SYSTEM_AUDIO_DATA, MIC_AUDIO_DATA, AUDIO_CHUNK_QUEUE, MIC_BUFFER,
                   ACTIVE_STREAM, MIC_ENGINE, MIC_CALLBACK_COUNT,
                   rt_lock, live_streams, live_mics, include_mic, capture_state,
                   returned, n_starts, sid, wav_writes,
                   built_chunks, drained_chunks>>

\* ------------------------------------------------- the microphone tap block
\* Lines 362-370: the tap returns at once unless the running flag is set.
MicEnter(d, cap) ==
    /\ pc[MIC] = "idle"
    /\ live_mics > 0
    /\ MIC_CALLBACK_COUNT < cap
    /\ IS_CAPTURING
    /\ pc' = [pc EXCEPT ![MIC] = "arch"]
    /\ cb_data' = [cb_data EXCEPT ![MIC] = d]
    /\ UNCHANGED <<AUDIO_ENGINE, CURRENT_LEVEL, IS_CAPTURING, SAMPLE_RATE, CHANNELS,
                   SYSTEM_AUDIO_DATA, MIC_AUDIO_DATA, AUDIO_CHUNK_QUEUE, SYSTEM_BUFFER,
                   MIC_BUFFER, ACTIVE_STREAM, MIC_ENGINE, SYSTEM_CALLBACK_COUNT,
                   MIC_CALLBACK_COUNT, rt_lock, live_streams, live_mics, include_mic,
                   capture_state, returned, n_starts, sid, wav_writes,
                   built_chunks, drained_chunks>>

\* Lines 377-380.
MicArchive ==
    /\ pc[MIC] = "arch"
    /\ MIC_AUDIO_DATA' = MIC_AUDIO_DATA \o cb_data[MIC].samples
    /\ pc' = [pc EXCEPT ![MIC] = "rt"]
    /\ UNCHANGED <<AUDIO_ENGINE, CURRENT_LEVEL, IS_CAPTURING, SAMPLE_RATE, CHANNELS,
                   SYSTEM_AUDIO_DATA, AUDIO_CHUNK_QUEUE, SYSTEM_BUFFER, MIC_BUFFER,
                   ACTIVE_STREAM, MIC_ENGINE, SYSTEM_CALLBACK_COUNT, MIC_CALLBACK_COUNT,
                   rt_lock, live_streams, live_mics, include_mic, capture_state,
                   cb_data, returned, n_starts, sid, wav_writes,
                   built_chunks, drained_chunks>>

\* Lines 383-405: resample, append, count the callback; every 5th callback
\* runs the builder.
MicRealtime ==
    /\ pc[MIC] = "rt"
    /\ IF resample_panics(cb_data[MIC].samples, cb_data[MIC].rate)
       THEN /\ \E outcome \in PanicOutcomes : pc' = [pc EXCEPT ![MIC] = outcome]
            /\ UNCHANGED <<MIC_BUFFER, MIC_CALLBACK_COUNT, cb_data>>
       ELSE /\ rt_lock = NULL
            /\ MIC_BUFFER' = MIC_BUFFER \o resample(cb_data[MIC].samples, cb_data[MIC].rate)
            /\ MIC_CALLBACK_COUNT' = MIC_CALLBACK_COUNT + 1
            /\ pc' = [pc EXCEPT ![MIC] = IF MIC_CALLBACK_COUNT % build_every = 0
                                         THEN "build" ELSE "idle"]
            /\ cb_data' = [cb_data EXCEPT ![MIC] = NoData]
    /\ UNCHANGED <<AUDIO_ENGINE, CURRENT_LEVEL, IS_CAPTURING, SAMPLE_RATE, CHANNELS,
                   SYSTEM_AUDIO_DATA, MIC_AUDIO_DATA, AUDIO_CHUNK_QUEUE, SYSTEM_BUFFER,
                   ACTIVE_STREAM, MIC_ENGINE, SYSTEM_CALLBACK_COUNT,
                   rt_lock, live_streams, live_mics, include_mic, capture_state,
                   returned, n_starts, sid, wav_writes,
                   built_chunks, drained_chunks>>

\* ---------------------------------------------------- the archival encoder
\* create_stereo_wav, lines 666-706: the stereo PCM bytes of the file.
wav_frame(system_mono, mic_samples, i) ==
    to_le_bytes(quantize(IF i <= Len(system_mono) THEN system_mono[i] ELSE 0, 8))
    \o to_le_bytes(quantize(IF i <= Len(mic_samples) THEN 3 * mic_samples[i] ELSE 0, 16))

RECURSIVE wav_frames(_, _, _)
wav_frames(system_mono, mic_samples, n) ==
    IF n = 0 THEN <<>>
    ELSE wav_frames(system_mono, mic_samples, n - 1) \o wav_frame(system_mono, mic_samples, n)

\* A variant that stops at the end of the shorter stream.
create_stereo_wav_short(system_data, mic_data, system_channels) ==
    LET system_mono == downmix(system_data, system_channels)
        min_len == Min(Len(system_mono), Len(mic_data))
    IN  wav_frames(system_mono, mic_data, min_len)

create_stereo_wav(system_data, mic_data, system_channels) ==
    LET system_mono == downmix(system_data, system_channels)
        max_len == Max(Len(system_mono), Len(mic_data))
    IN  wav_frames(system_mono, mic_data, max_len)

\* u16::to_le_bytes and u32::to_le_bytes.
u16_le(v) == <<v % 256, (v \div 256) % 256>>
u32_le(v) == <<v % 256, (v \div 256) % 256, (v \div 65536) % 256, (v \div 16777216) % 256>>

\* A variant that writes the size of the whole file into the RIFF chunk.
write_header_whole(sample_rate, channels, bits_per_sample, data_size) ==
    <<82, 73, 70, 70>> \o u32_le(44 + data_size)
    \o <<87, 65, 86, 69>> \o <<102, 109, 116, 32>> \o u32_le(16) \o u16_le(1)
    \o u16_le(channels) \o u32_le(sample_rate)
    \o u32_le((sample_rate * channels * bits_per_sample) \div 8)
    \o u16_le(((channels * bits_per_sample) % 65536) \div 8) \o u16_le(bits_per_sample)
    \o <<100, 97, 116, 97>> \o u32_le(data_size)

\* WavHeader::write_header, src/audio.rs:42-69: "RIFF", size, "WAVE", "fmt ",
\* 16, the format tag, the format fields, "data", size.  The u32 products
\* and sums stay far below 2^32 for the rates and sizes met here.
write_header(sample_rate, channels, bits_per_sample, data_size) ==
    LET byte_rate == (sample_rate * channels * bits_per_sample) \div 8
        block_align == ((channels * bits_per_sample) % 65536) \div 8
        file_size == 36 + data_size
    IN  <<82, 73, 70, 70>> \o u32_le(file_size)
        \o <<87, 65, 86, 69>> \o <<102, 109, 116, 32>> \o u32_le(16) \o u16_le(1)
        \o u16_le(channels) \o u32_le(sample_rate) \o u32_le(byte_rate)
        \o u16_le(block_align) \o u16_le(bits_per_sample)
        \o <<100, 97, 116, 97>> \o u32_le(data_size)

\* write_wav, lines 708-716: the bytes of the file, the header and the PCM.
write_wav(pcm, rate, channels) == write_header(rate, channels, 16, Len(pcm)) \o pcm

\* stop_capture, lines 650-661: the file a stop writes from the archival
\* buffers and the format it finds when it takes them.
stop_wav ==
    write_wav(create_stereo_wav(SYSTEM_AUDIO_DATA, MIC_AUDIO_DATA, CHANNELS), SAMPLE_RATE, 2)

\* -------------------------------------------------- start_audio_capture
\* A variant without the already-capturing check.
StartCall_unchecked(c, mic) ==
    /\ pc[c] = "idle"
    /\ n_starts < MaxStarts
    /\ n_starts' = n_starts + 1
    /\ sid' = [sid EXCEPT ![c] = n_starts + 1]
    /\ pc' = [pc EXCEPT ![c] = "s_clear"]
    /\ include_mic' = [include_mic EXCEPT ![c] = IF mic THEN "wanted" ELSE "off"]
    /\ UNCHANGED <<AUDIO_ENGINE, CURRENT_LEVEL, IS_CAPTURING, SAMPLE_RATE, CHANNELS,
                   SYSTEM_AUDIO_DATA, MIC_AUDIO_DATA, AUDIO_CHUNK_QUEUE, SYSTEM_BUFFER,
                   MIC_BUFFER, ACTIVE_STREAM, MIC_ENGINE, SYSTEM_CALLBACK_COUNT,
                   MIC_CALLBACK_COUNT, rt_lock, live_streams, live_mics,
                   capture_state, cb_data, returned, wav_writes,
                   built_chunks, drained_chunks>>

\* lib.rs:161-179: the already-capturing check, under the AUDIO_ENGINE lock.
StartCall(c, mic) ==
    /\ pc[c] = "idle"
    /\ IF AUDIO_ENGINE.is_some /\ AUDIO_ENGINE.is_capturing
       THEN /\ returned' = [caller |-> c, value |-> "AlreadyCapturing"]
            /\ UNCHANGED <<pc, include_mic, n_starts, sid>>
       ELSE /\ n_starts < MaxStarts
            /\ n_starts' = n_starts + 1
            /\ sid' = [sid EXCEPT ![c] = n_starts + 1]
            /\ pc' = [pc EXCEPT ![c] = "s_clear"]
            /\ include_mic' = [include_mic EXCEPT ![c] = IF mic THEN "wanted" ELSE "off"]
            /\ UNCHANGED returned
    /\ UNCHANGED <<AUDIO_ENGINE, CURRENT_LEVEL, IS_CAPTURING, SAMPLE_RATE, CHANNELS,
                   SYSTEM_AUDIO_DATA, MIC_AUDIO_DATA, AUDIO_CHUNK_QUEUE, SYSTEM_BUFFER,
                   MIC_BUFFER, ACTIVE_STREAM, MIC_ENGINE, SYSTEM_CALLBACK_COUNT,
                   MIC_CALLBACK_COUNT, rt_lock, live_streams, live_mics,
                   capture_state, cb_data, wav_writes,
                   built_chunks, drained_chunks>>

\* start_capture, audio.rs:462-471: the buffers and the queue are cleared, the
\* callback counter reset and the running flag set.  The five clears and the
\* two stores follow each other without a blocking call in between and are
\* taken as one step; the step waits for a builder pass that holds the
\* realtime guards.
StartClear(c) ==
    /\ pc[c] = "s_clear"
    /\ rt_lock = NULL
    /\ SYSTEM_AUDIO_DATA' = <<>>
    /\ MIC_AUDIO_DATA' = <<>>
    /\ SYSTEM_BUFFER' = <<>>
    /\ MIC_BUFFER' = <<>>
    /\ AUDIO_CHUNK_QUEUE' = <<>>
    /\ built_chunks' = <<>>
    /\ drained_chunks' = <<>>
    /\ SYSTEM_CALLBACK_COUNT' = 0
    /\ IS_CAPTURING' = TRUE
    /\ pc' = [pc EXCEPT ![c] = "s_setup"]
    /\ UNCHANGED <<AUDIO_ENGINE, CURRENT_LEVEL, SAMPLE_RATE, CHANNELS, ACTIVE_STREAM,
                   MIC_ENGINE, MIC_CALLBACK_COUNT, rt_lock, live_streams, live_mics,
                   include_mic, capture_state, cb_data, returned, n_starts, sid, wav_writes>>

\* setup_system_audio_capture (audio.rs:510-613) inside the blocking task of
\* lines 477-490.  ok: the backend delivered content, built the stream and
\* acknowledged its start; the stream is then registered.  Otherwise the task
\* fails, start_capture clears the running flag (lines 497-504) and
\* start_audio_capture returns the error (lib.rs:189).
StartSetup(c, ok) ==
    /\ pc[c] = "s_setup"
    /\ IF ok
       THEN /\ live_streams' = live_streams + 1
            /\ ACTIVE_STREAM' = "stream"
            /\ pc' = [pc EXCEPT ![c] = IF include_mic[c] = "wanted" THEN "s_mic" ELSE "s_reg"]
            /\ UNCHANGED <<IS_CAPTURING, returned, include_mic, sid>>
       ELSE /\ IS_CAPTURING' = FALSE
            /\ returned' = [caller |-> c, value |-> "StartFailed"]
            /\ pc' = [pc EXCEPT ![c] = "idle"]
            /\ include_mic' = [include_mic EXCEPT ![c] = "off"]
            /\ sid' = [sid EXCEPT ![c] = 0]
            /\ UNCHANGED <<live_streams, ACTIVE_STREAM>>
    /\ UNCHANGED <<AUDIO_ENGINE, CURRENT_LEVEL, SAMPLE_RATE, CHANNELS,
                   SYSTEM_AUDIO_DATA, MIC_AUDIO_DATA, AUDIO_CHUNK_QUEUE, SYSTEM_BUFFER,
                   MIC_BUFFER, MIC_ENGINE, SYSTEM_CALLBACK_COUNT, MIC_CALLBACK_COUNT,
                   rt_lock, live_mics, capture_state, cb_data, n_starts, wav_writes,
                   built_chunks, drained_chunks>>

\* start_microphone_capture (audio.rs:315-429) as called at lines 482-487: a
\* failure is logged and the start goes on.
StartMic(c, ok) ==
    /\ pc[c] = "s_mic"
    /\ IF ok
       THEN /\ live_mics' = live_mics + 1
            /\ MIC_ENGINE' = "engine"
       ELSE UNCHANGED <<live_mics, MIC_ENGINE>>
    /\ include_mic' = [include_mic EXCEPT ![c] = IF ok THEN "started" ELSE "failed"]
    /\ pc' = [pc EXCEPT ![c] = "s_reg"]
    /\ UNCHANGED <<AUDIO_ENGINE, CURRENT_LEVEL, IS_CAPTURING, SAMPLE_RATE, CHANNELS,
                   SYSTEM_AUDIO_DATA, MIC_AUDIO_DATA, AUDIO_CHUNK_QUEUE, SYSTEM_BUFFER,
                   MIC_BUFFER, ACTIVE_STREAM, SYSTEM_CALLBACK_COUNT, MIC_CALLBACK_COUNT,
                   rt_lock, live_streams, capture_state, cb_data, returned,
                   n_starts, sid, wav_writes,
                   built_chunks, drained_chunks>>

\* lib.rs:191-197 and 224: the session is registered and the call returns Ok.
StartRegister(c) ==
    /\ pc[c] = "s_reg"
    /\ AUDIO_ENGINE' = [is_some |-> TRUE, is_capturing |-> TRUE,
                        output_path |-> PathOf(sid[c]), sid |-> sid[c]]
    /\ returned' = [caller |-> c, value |-> "Ok"]
    /\ pc' = [pc EXCEPT ![c] = "idle"]
    /\ include_mic' = [include_mic EXCEPT ![c] = "off"]
    /\ sid' = [sid EXCEPT ![c] = 0]
    /\ UNCHANGED <<CURRENT_LEVEL, IS_CAPTURING, SAMPLE_RATE, CHANNELS,
                   SYSTEM_AUDIO_DATA, MIC_AUDIO_DATA, AUDIO_CHUNK_QUEUE, SYSTEM_BUFFER,
                   MIC_BUFFER, ACTIVE_STREAM, MIC_ENGINE, SYSTEM_CALLBACK_COUNT,
                   MIC_CALLBACK_COUNT, rt_lock, live_streams, live_mics,
                   capture_state, cb_data, n_starts, wav_writes,
                   built_chunks, drained_chunks>>

\* --------------------------------------------------- stop_audio_capture
\* A variant that goes on to the teardown whether or not a session is
\* registered.
StopCall_unchecked(c) ==
    /\ pc[c] = "idle"
    /\ AUDIO_ENGINE' = None
    /\ capture_state' = [capture_state EXCEPT ![c] = AUDIO_ENGINE]
    /\ pc' = [pc EXCEPT ![c] = "t_flag"]
    /\ UNCHANGED <<CURRENT_LEVEL, IS_CAPTURING, SAMPLE_RATE, CHANNELS,
                   SYSTEM_AUDIO_DATA, MIC_AUDIO_DATA, AUDIO_CHUNK_QUEUE, SYSTEM_BUFFER,
                   MIC_BUFFER, ACTIVE_STREAM, MIC_ENGINE, SYSTEM_CALLBACK_COUNT,
                   MIC_CALLBACK_COUNT, rt_lock, live_streams, live_mics, include_mic,
                   cb_data, returned, n_starts, sid, wav_writes,
                   built_chunks, drained_chunks>>

\* A variant that reads the session state and leaves it registered.
StopCall_peek(c) ==
    /\ pc[c] = "idle"
    /\ IF ~AUDIO_ENGINE.is_some
       THEN /\ returned' = [caller |-> c, value |-> "NoActiveCapture"]
            /\ UNCHANGED <<pc, capture_state>>
       ELSE /\ capture_state' = [capture_state EXCEPT ![c] = AUDIO_ENGINE]
            /\ pc' = [pc EXCEPT ![c] = "t_flag"]
            /\ UNCHANGED returned
    /\ UNCHANGED <<AUDIO_ENGINE, CURRENT_LEVEL, IS_CAPTURING, SAMPLE_RATE, CHANNELS,
                   SYSTEM_AUDIO_DATA, MIC_AUDIO_DATA, AUDIO_CHUNK_QUEUE, SYSTEM_BUFFER,
                   MIC_BUFFER, ACTIVE_STREAM, MIC_ENGINE, SYSTEM_CALLBACK_COUNT,
                   MIC_CALLBACK_COUNT, rt_lock, live_streams, live_mics, include_mic,
                   cb_data, n_starts, sid, wav_writes,
                   built_chunks, drained_chunks>>

\* lib.rs:230-239: the session state is taken under the AUDIO_ENGINE lock.
StopCall(c) ==
    /\ pc[c] = "idle"
    /\ IF ~AUDIO_ENGINE.is_some
       THEN /\ returned' = [caller |-> c, value |-> "NoActiveCapture"]
            /\ UNCHANGED <<AUDIO_ENGINE, pc, capture_state>>
       ELSE /\ AUDIO_ENGINE' = None
            /\ IF ~AUDIO_ENGINE.is_capturing
               THEN /\ returned' = [caller |-> c, value |-> "NotCapturing"]
                    /\ UNCHANGED <<pc, capture_state>>
               ELSE /\ capture_state' = [capture_state EXCEPT ![c] = AUDIO_ENGINE]
                    /\ pc' = [pc EXCEPT ![c] = "t_flag"]
                    /\ UNCHANGED returned
    /\ UNCHANGED <<CURRENT_LEVEL, IS_CAPTURING, SAMPLE_RATE, CHANNELS,
                   SYSTEM_AUDIO_DATA, MIC_AUDIO_DATA, AUDIO_CHUNK_QUEUE, SYSTEM_BUFFER,
                   MIC_BUFFER, ACTIVE_STREAM, MIC_ENGINE, SYSTEM_CALLBACK_COUNT,
                   MIC_CALLBACK_COUNT, rt_lock, live_streams, live_mics, include_mic,
                   cb_data, n_starts, sid, wav_writes,
                   built_chunks, drained_chunks>>

\* stop_capture, audio.rs:618-620: the running flag is cleared, then the task
\* sleeps 200 ms (the other threads run on).
StopFlag(c) ==
    /\ pc[c] = "t_flag"
    /\ IS_CAPTURING' = FALSE
    /\ pc' = [pc EXCEPT ![c] = "t_mic"]
    /\ UNCHANGED <<AUDIO_ENGINE, CURRENT_LEVEL, SAMPLE_RATE, CHANNELS,
                   SYSTEM_AUDIO_DATA, MIC_AUDIO_DATA, AUDIO_CHUNK_QUEUE, SYSTEM_BUFFER,
                   MIC_BUFFER, ACTIVE_STREAM, MIC_ENGINE, SYSTEM_CALLBACK_COUNT,
                   MIC_CALLBACK_COUNT, rt_lock, live_streams, live_mics, include_mic,
                   capture_state, cb_data, returned, n_starts, sid, wav_writes,
                   built_chunks, drained_chunks>>

\* A variant of stop that treats a missing microphone engine as a failure and
\* gives up.
StopMic_strict(c) ==
    /\ pc[c] = "t_mic"
    /\ IF MIC_ENGINE = NULL
       THEN /\ returned' = [caller |-> c, value |-> "StopFailed"]
            /\ capture_state' = [capture_state EXCEPT ![c] = None]
            /\ pc' = [pc EXCEPT ![c] = "idle"]
            /\ UNCHANGED <<MIC_ENGINE, live_mics>>
       ELSE /\ MIC_ENGINE' = NULL
            /\ live_mics' = live_mics - 1
            /\ pc' = [pc EXCEPT ![c] = "t_sys"]
            /\ UNCHANGED <<returned, capture_state>>
    /\ UNCHANGED <<AUDIO_ENGINE, CURRENT_LEVEL, IS_CAPTURING, SAMPLE_RATE, CHANNELS,
                   SYSTEM_AUDIO_DATA, MIC_AUDIO_DATA, AUDIO_CHUNK_QUEUE, SYSTEM_BUFFER,
                   MIC_BUFFER, ACTIVE_STREAM, SYSTEM_CALLBACK_COUNT, MIC_CALLBACK_COUNT,
                   rt_lock, live_streams, include_mic, cb_data,
                   n_starts, sid, wav_writes,
                   built_chunks, drained_chunks>>

\* A variant of stop that goes on without the microphone teardown.
StopMic_skipped(c) ==
    /\ pc[c] = "t_mic"
    /\ pc' = [pc EXCEPT ![c] = "t_sys"]
    /\ UNCHANGED <<AUDIO_ENGINE, CURRENT_LEVEL, IS_CAPTURING, SAMPLE_RATE, CHANNELS,
                   SYSTEM_AUDIO_DATA, MIC_AUDIO_DATA, AUDIO_CHUNK_QUEUE, SYSTEM_BUFFER,
                   MIC_BUFFER, ACTIVE_STREAM, MIC_ENGINE, SYSTEM_CALLBACK_COUNT,
                   MIC_CALLBACK_COUNT, rt_lock, live_streams, live_mics, include_mic,
                   capture_state, cb_data, returned, n_starts, sid, wav_writes,
                   built_chunks, drained_chunks>>

\* stop_microphone_capture, audio.rs:432-443: an absent engine is skipped.
StopMic(c) ==
    /\ pc[c] = "t_mic"
    /\ MIC_ENGINE' = NULL
    /\ live_mics' = IF MIC_ENGINE # NULL THEN live_mics - 1 ELSE live_mics
    /\ pc' = [pc EXCEPT ![c] = "t_sys"]
    /\ UNCHANGED <<AUDIO_ENGINE, CURRENT_LEVEL, IS_CAPTURING, SAMPLE_RATE, CHANNELS,
                   SYSTEM_AUDIO_DATA, MIC_AUDIO_DATA, AUDIO_CHUNK_QUEUE, SYSTEM_BUFFER,
                   MIC_BUFFER, ACTIVE_STREAM, SYSTEM_CALLBACK_COUNT, MIC_CALLBACK_COUNT,
                   rt_lock, live_streams, include_mic, capture_state, cb_data, returned,
                   n_starts, sid, wav_writes,
                   built_chunks, drained_chunks>>

\* audio.rs:626-644: the registered stream, if any, is stopped and released.
StopSys(c) ==
    /\ pc[c] = "t_sys"
    /\ ACTIVE_STREAM' = NULL
    /\ live_streams' = IF ACTIVE_STREAM # NULL THEN live_streams - 1 ELSE live_streams
    /\ pc' = [pc EXCEPT ![c] = "build"]
    /\ UNCHANGED <<AUDIO_ENGINE, CURRENT_LEVEL, IS_CAPTURING, SAMPLE_RATE, CHANNELS,
                   SYSTEM_AUDIO_DATA, MIC_AUDIO_DATA, AUDIO_CHUNK_QUEUE, SYSTEM_BUFFER,
                   MIC_BUFFER, MIC_ENGINE, SYSTEM_CALLBACK_COUNT, MIC_CALLBACK_COUNT,
                   rt_lock, live_mics, include_mic, capture_state, cb_data, returned,
                   n_starts, sid, wav_writes,
                   built_chunks, drained_chunks>>

\* A variant of stop that also empties the chunk queue when it takes the
\* archival buffers.
StopWrite_flush(c, ok) ==
    /\ pc[c] = "t_take"
    /\ SYSTEM_AUDIO_DATA' = <<>>
    /\ MIC_AUDIO_DATA' = <<>>
    /\ AUDIO_CHUNK_QUEUE' = <<>>
    /\ IF ok
       THEN /\ wav_writes' = [wav_writes EXCEPT ![capture_state[c].sid] = @ + 1]
            /\ returned' = [caller |-> c, value |-> capture_state[c].output_path]
       ELSE /\ returned' = [caller |-> c, value |-> "StopFailed"]
            /\ UNCHANGED wav_writes
    /\ capture_state' = [capture_state EXCEPT ![c] = None]
    /\ pc' = [pc EXCEPT ![c] = "idle"]
    /\ UNCHANGED <<AUDIO_ENGINE, CURRENT_LEVEL, IS_CAPTURING, SAMPLE_RATE, CHANNELS,
                   SYSTEM_BUFFER, MIC_BUFFER, ACTIVE_STREAM,
                   MIC_ENGINE, SYSTEM_CALLBACK_COUNT, MIC_CALLBACK_COUNT, rt_lock,
                   live_streams, live_mics, include_mic, cb_data, n_starts, sid,
                   built_chunks, drained_chunks>>

\* audio.rs:650-662 and lib.rs:244-253, after the final builder pass: the
\* archival buffers are taken, encoded and written.  ok: the file could be
\* written; the call then returns the session's output path.
StopWrite(c, ok) ==
    /\ pc[c] = "t_take"
    /\ SYSTEM_AUDIO_DATA' = <<>>
    /\ MIC_AUDIO_DATA' = <<>>
    /\ IF ok
       THEN /\ wav_writes' = [wav_writes EXCEPT ![capture_state[c].sid] = @ + 1]
            /\ returned' = [caller |-> c, value |-> capture_state[c].output_path]
       ELSE /\ returned' = [caller |-> c, value |-> "StopFailed"]
            /\ UNCHANGED wav_writes
    /\ capture_state' = [capture_state EXCEPT ![c] = None]
    /\ pc' = [pc EXCEPT ![c] = "idle"]
    /\ UNCHANGED <<AUDIO_ENGINE, CURRENT_LEVEL, IS_CAPTURING, SAMPLE_RATE, CHANNELS,
                   AUDIO_CHUNK_QUEUE, SYSTEM_BUFFER, MIC_BUFFER, ACTIVE_STREAM,
                   MIC_ENGINE, SYSTEM_CALLBACK_COUNT, MIC_CALLBACK_COUNT, rt_lock,
                   live_streams, live_mics, include_mic, cb_data, n_starts, sid,
                   built_chunks, drained_chunks>>

\* ------------------------------------------------------- get_audio_chunks
\* A variant that empties the queue but returns it without its newest chunk.
GetAudioChunks_short ==
    /\ AUDIO_CHUNK_QUEUE # <<>>
    /\ drained_chunks' =
           drained_chunks \o SubSeq(AUDIO_CHUNK_QUEUE, 1, Len(AUDIO_CHUNK_QUEUE) - 1)
    /\ AUDIO_CHUNK_QUEUE' = <<>>
    /\ UNCHANGED <<AUDIO_ENGINE, CURRENT_LEVEL, IS_CAPTURING, SAMPLE_RATE, CHANNELS,
                   SYSTEM_AUDIO_DATA, MIC_AUDIO_DATA, SYSTEM_BUFFER, MIC_BUFFER,
                   ACTIVE_STREAM, MIC_ENGINE, SYSTEM_CALLBACK_COUNT, MIC_CALLBACK_COUNT,
                   rt_lock, live_streams, live_mics, pc, include_mic, capture_state,
                   cb_data, returned, n_starts, sid, wav_writes, built_chunks>>

\* audio.rs:117-120: the queue is drained under its lock and returned in
\* queue order (q.drain(..).collect()).
GetAudioChunks ==
    /\ AUDIO_CHUNK_QUEUE # <<>>
    /\ drained_chunks' = drained_chunks \o AUDIO_CHUNK_QUEUE
    /\ AUDIO_CHUNK_QUEUE' = <<>>
    /\ UNCHANGED <<AUDIO_ENGINE, CURRENT_LEVEL, IS_CAPTURING, SAMPLE_RATE, CHANNELS,
                   SYSTEM_AUDIO_DATA, MIC_AUDIO_DATA, SYSTEM_BUFFER, MIC_BUFFER,
                   ACTIVE_STREAM, MIC_ENGINE, SYSTEM_CALLBACK_COUNT, MIC_CALLBACK_COUNT,
                   rt_lock, live_streams, live_mics, pc, include_mic, capture_state,
                   cb_data, returned, n_starts, sid, wav_writes, built_chunks>>

\* ---------------------------------------------------------- specification
\* The steps of the host callers in cs.
HostNext(cs) ==
    \/ \E c \in cs, mic \in BOOLEAN : StartCall(c, mic)
    \/ \E c \in cs : StartClear(c)
    \/ \E c \in cs, ok \in BOOLEAN : StartSetup(c, ok)
    \/ \E c \in cs, ok \in BOOLEAN : StartMic(c, ok)
    \/ \E c \in cs : StartRegister(c)
    \/ \E c \in cs : StopCall(c)
    \/ \E c \in cs : StopFlag(c)
    \/ \E c \in cs : StopMic(c)
    \/ \E c \in cs : StopSys(c)
    \/ \E c \in cs, ok \in BOOLEAN : StopWrite(c, ok)
    \/ GetAudioChunks

BuilderNext ==
    \/ \E t \in Threads : BuildEnter(t)
    \/ \E t \in Threads : BuildIter(t)
    \/ \E t \in Threads : BuildExit(t)

SysNext(cap) ==
    \/ \E d \in SysDeliveries : SysEnter(d, cap)
    \/ SysArchive
    \/ SysRealtime

MicNext(cap) ==
    \/ \E d \in MicDeliveries : MicEnter(d, cap)
    \/ MicArchive
    \/ MicRealtime

\* Two host callers racing their start and stop calls, and the system source.
Next == HostNext(Callers) \/ BuilderNext \/ SysNext(LifecycleCallbacks)

Spec == Init /\ [][Next]_vars

\* One host caller, the system source and the microphone.
PipelineNext ==
    HostNext({"h1"}) \/ BuilderNext \/ SysNext(MaxCallbacks) \/ MicNext(MaxCallbacks)

PipelineSpec == Init /\ [][PipelineNext]_vars

\* ---------------------------------------------------------------- fairness
\* A thread that can take its next step takes it: an accepted host call runs
\* on (the async task is polled, the backends signal their completion
\* handlers, a blocked lock() is granted once the guard is free), and a
\* callback that has begun runs to its end.  Nothing obliges the host to
\* call, nor, except under SteadySpec, a backend to deliver.
BuilderRuns(t) == BuildEnter(t) \/ BuildIter(t) \/ BuildExit(t)

CallerRuns(c) ==
    \/ StartClear(c)
    \/ \E ok \in BOOLEAN : StartSetup(c, ok)
    \/ \E ok \in BOOLEAN : StartMic(c, ok)
    \/ StartRegister(c)
    \/ StopFlag(c)
    \/ StopMic(c)
    \/ StopSys(c)
    \/ BuilderRuns(c)
    \/ \E ok \in BOOLEAN : StopWrite(c, ok)

SysRuns == SysArchive \/ SysRealtime \/ BuilderRuns(SYS)

FairSpec == Spec /\ (\A c \in Callers : WF_vars(CallerRuns(c))) /\ WF_vars(SysRuns)

MicRuns == MicArchive \/ MicRealtime \/ BuilderRuns(MIC)

\* One host caller and both sources, every thread running on.
PipelineFairSpec ==
    /\ PipelineSpec
    /\ WF_vars(CallerRuns("h1"))
    /\ WF_vars(SysRuns)
    /\ WF_vars(MicRuns)

\* A session that is started and left running, the host draining the queue
\* now and then, in which one source keeps delivering, up to SteadyCallbacks
\* buffers, and the other delivers nothing at all: the source whose callback
\* comes first is the one that delivers.
SteadySys ==
    /\ MIC_CALLBACK_COUNT = 0 /\ pc[MIC] = "idle"
    /\ \/ \E d \in SysDeliveries : SysEnter(d, SteadyCallbacks)
       \/ SysRuns

SteadyMic ==
    /\ SYSTEM_CALLBACK_COUNT = 0 /\ pc[SYS] = "idle"
    /\ \/ \E d \in MicDeliveries : MicEnter(d, SteadyCallbacks)
       \/ MicRuns

SteadyNext ==
    \/ \E mic \in BOOLEAN : StartCall("h1", mic)
    \/ StartClear("h1")
    \/ \E ok \in BOOLEAN : StartSetup("h1", ok)
    \/ \E ok \in BOOLEAN : StartMic("h1", ok)
    \/ StartRegister("h1")
    \/ GetAudioChunks
    \/ SteadySys
    \/ SteadyMic

SteadySpec ==
    /\ Init /\ [][SteadyNext]_vars
    /\ WF_vars(CallerRuns("h1"))
    /\ WF_vars(SteadySys)
    /\ WF_vars(SteadyMic)

\* --------------------------------------------------- ingestion and export
\* The formats a backend may report: the rate of the stream's
\* AudioStreamBasicDescription (line 234) or of the input node's format (line
\* 350), 0 included (a format without a rate), and the system stream's
\* channels_per_frame (line 235).
IngestRates == {0, 8000, target_rate, 48000}
IngestChannels == {1, 2, 3}

\* A buffer of n samples 0.25, 0.5, 0.75, 1.0, 0.25, ...
Ramp(n) == [j \in 1..n |-> Value(2 * j)]

\* What the system backend delivers under IngestSpec: any length up to
\* MaxLen, whole frames or not, in any of the formats; the format of a stream
\* that has delivered stays what it was.
IngestSysDeliveries ==
    { [samples |-> Ramp(n), rate |-> r, channels |-> c, epoch |-> n_starts] :
        n \in 1..MaxLen,
        r \in IF SYSTEM_CALLBACK_COUNT = 0 THEN IngestRates ELSE {SAMPLE_RATE},
        c \in IF SYSTEM_CALLBACK_COUNT = 0 THEN IngestChannels ELSE {CHANNELS} }

\* What the microphone tap delivers under IngestSpec: the first channel, at
\* the rate start_microphone_capture read from the input format.
IngestMicDeliveries ==
    { [samples |-> Ramp(n), rate |-> r, channels |-> 1, epoch |-> n_starts] :
        n \in 1..MaxLen, r \in IngestRates }

\* A panic in a callback the backend calls through the C ABI
\* (extern "C" fn on_system_audio, the tap block) ends the process.
Aborted == pc[SYS] = "aborted" \/ pc[MIC] = "aborted"

\* One session of one host caller, from start to the written file, fed by one
\* of the sources (the one whose callback comes first): the system stream
\* delivers up to MaxCallbacks buffers, the microphone one buffer.
IngestSys ==
    /\ ~Aborted
    /\ MIC_CALLBACK_COUNT = 0 /\ pc[MIC] = "idle"
    /\ \/ \E d \in IngestSysDeliveries : SysEnter(d, MaxCallbacks)
       \/ SysRuns

IngestMic ==
    /\ ~Aborted
    /\ SYSTEM_CALLBACK_COUNT = 0 /\ pc[SYS] = "idle"
    /\ \/ \E d \in IngestMicDeliveries : MicEnter(d, 1)
       \/ MicRuns

IngestNext ==
    \/ (~Aborted /\ n_starts = 0 /\ \E mic \in BOOLEAN : StartCall("h1", mic))
    \/ (~Aborted /\ StartClear("h1"))
    \/ (~Aborted /\ \E ok \in BOOLEAN : StartSetup("h1", ok))
    \/ (~Aborted /\ \E ok \in BOOLEAN : StartMic("h1", ok))
    \/ (~Aborted /\ StartRegister("h1"))
    \/ (~Aborted /\ StopCall("h1"))
    \/ (~Aborted /\ StopFlag("h1"))
    \/ (~Aborted /\ StopMic("h1"))
    \/ (~Aborted /\ StopSys("h1"))
    \/ (~Aborted /\ BuilderRuns("h1"))
    \/ (~Aborted /\ \E ok \in BOOLEAN : StopWrite("h1", ok))
    \/ IngestSys
    \/ IngestMic

IngestSpec == Init /\ [][IngestNext]_vars

\* ------------------------------------------------------------- the mutexes
\* The lock scopes of audio.rs one by one.  Under LockSpec rt_lock maps each
\* of the three mutexes of the realtime path to the thread holding its guard
\* from one step to the next: build_stereo_chunks takes the SYSTEM_BUFFER
\* guard, then the MIC_BUFFER guard (lines 136-137), keeps both to its end
\* and takes the AUDIO_CHUNK_QUEUE guard inside the loop (line 175).  Every
\* other lock() of the file is a temporary of one statement: it waits for the
\* guard, acts and drops it, so it is one step that needs the guard free.
\* Threads: the system callback, the microphone tap, the host's start and
\* stop ("h1") and the host's polling of the queue ("h2").  The mutexes of
\* the archival buffers, of the level and of the session are only ever taken
\* by one-statement temporaries with no other guard in hand, so their steps
\* wait for nothing that a waiting thread holds.
Mutexes == {"SYSTEM_BUFFER", "MIC_BUFFER", "AUDIO_CHUNK_QUEUE"}

Free(m) == rt_lock[m] = NULL

lock_unused == <<AUDIO_ENGINE, CURRENT_LEVEL, SAMPLE_RATE, CHANNELS, SYSTEM_AUDIO_DATA,
                 MIC_AUDIO_DATA, ACTIVE_STREAM, MIC_ENGINE, live_streams, live_mics,
                 include_mic, capture_state, cb_data, returned, sid, wav_writes,
                 built_chunks, drained_chunks>>

LockInit ==
    /\ AUDIO_ENGINE = None
    /\ CURRENT_LEVEL = 0
    /\ IS_CAPTURING = FALSE
    /\ SAMPLE_RATE = 48000
    /\ CHANNELS = 2
    /\ SYSTEM_AUDIO_DATA = <<>>
    /\ MIC_AUDIO_DATA = <<>>
    /\ AUDIO_CHUNK_QUEUE = <<>>
    /\ SYSTEM_BUFFER = <<>>
    /\ MIC_BUFFER = <<>>
    /\ ACTIVE_STREAM = NULL
    /\ MIC_ENGINE = NULL
    /\ SYSTEM_CALLBACK_COUNT = 0
    /\ MIC_CALLBACK_COUNT = 0
    /\ rt_lock = [m \in Mutexes |-> NULL]
    /\ live_streams = 0
    /\ live_mics = 0
    /\ pc = [t \in Threads |-> "idle"]
    /\ include_mic = [c \in Callers |-> "off"]
    /\ capture_state = [c \in Callers |-> None]
    /\ cb_data = [t \in {SYS, MIC} |-> NoData]
    /\ returned = [caller |-> NULL, value |-> "none"]
    /\ n_starts = 0
    /\ sid = [c \in Callers |-> 0]
    /\ wav_writes = [s \in 1..MaxStarts |-> 0]
    /\ built_chunks = <<>>
    /\ drained_chunks = <<>>

\* A variant in which stop's final pass takes the two guards in the other
\* order.
guard_order_stop_reversed(t) ==
    IF t \in Callers THEN <<"MIC_BUFFER", "SYSTEM_BUFFER">>
    ELSE <<"SYSTEM_BUFFER", "MIC_BUFFER">>

\* Lines 136-137: the order in which a pass of thread t takes its guards.
guard_order(t) == <<"SYSTEM_BUFFER", "MIC_BUFFER">>

\* Where a thread continues after its pass: stop goes on to its takes, the
\* system callback returns (its log, line 291, takes an archival mutex), the
\* tap goes on to its log when its count is a multiple of log_every.
LockAfterBuild(t) ==
    IF t \in Callers THEN "t_take"
    ELSE IF t = MIC /\ (MIC_CALLBACK_COUNT - 1) % log_every = 0 THEN "log_mic"
    ELSE "idle"

\* Line 136: the first guard is taken.
LockBuildFirst(t) ==
    /\ pc[t] = "build"
    /\ Free(guard_order(t)[1])
    /\ rt_lock' = [rt_lock EXCEPT ![guard_order(t)[1]] = t]
    /\ pc' = [pc EXCEPT ![t] = "build_second"]
    /\ UNCHANGED <<lock_unused, IS_CAPTURING, SYSTEM_BUFFER, MIC_BUFFER, AUDIO_CHUNK_QUEUE,
                   SYSTEM_CALLBACK_COUNT, MIC_CALLBACK_COUNT, n_starts>>

\* Lines 137-140: the second guard is taken; with both buffers empty the pass
\* returns and drops both.
LockBuildSecond(t) ==
    /\ pc[t] = "build_second"
    /\ Free(guard_order(t)[2])
    /\ IF SYSTEM_BUFFER = <<>> /\ MIC_BUFFER = <<>>
       THEN /\ rt_lock' = [rt_lock EXCEPT ![guard_order(t)[1]] = NULL]
            /\ pc' = [pc EXCEPT ![t] = LockAfterBuild(t)]
       ELSE /\ rt_lock' = [rt_lock EXCEPT ![guard_order(t)[2]] = t]
            /\ pc' = [pc EXCEPT ![t] = "build_loop"]
    /\ UNCHANGED <<lock_unused, IS_CAPTURING, SYSTEM_BUFFER, MIC_BUFFER, AUDIO_CHUNK_QUEUE,
                   SYSTEM_CALLBACK_COUNT, MIC_CALLBACK_COUNT, n_starts>>

\* Lines 154-187, one iteration: the chunk is encoded, the queue's guard is
\* taken for the push (line 175) and dropped, the buffers are drained.
LockBuildIter(t) ==
    /\ pc[t] = "build_loop"
    /\ BuildMore
    /\ Free("AUDIO_CHUNK_QUEUE")
    /\ LET samples_to_process ==
               Min(chunk_size, Max(Len(SYSTEM_BUFFER), Len(MIC_BUFFER)))
       IN  /\ AUDIO_CHUNK_QUEUE' =
                  push_back(AUDIO_CHUNK_QUEUE,
                            stereo_chunk(SYSTEM_BUFFER, MIC_BUFFER, samples_to_process))
           /\ SYSTEM_BUFFER' = drain(SYSTEM_BUFFER, samples_to_process)
           /\ MIC_BUFFER' = drain(MIC_BUFFER, samples_to_process)
    /\ UNCHANGED <<lock_unused, IS_CAPTURING, rt_lock, pc,
                   SYSTEM_CALLBACK_COUNT, MIC_CALLBACK_COUNT, n_starts>>

\* Line 189: the loop ends and both guards are dropped.
LockBuildExit(t) ==
    /\ pc[t] = "build_loop"
    /\ ~BuildMore
    /\ rt_lock' = [rt_lock EXCEPT !["SYSTEM_BUFFER"] = NULL, !["MIC_BUFFER"] = NULL]
    /\ pc' = [pc EXCEPT ![t] = LockAfterBuild(t)]
    /\ UNCHANGED <<lock_unused, IS_CAPTURING, SYSTEM_BUFFER, MIC_BUFFER, AUDIO_CHUNK_QUEUE,
                   SYSTEM_CALLBACK_COUNT, MIC_CALLBACK_COUNT, n_starts>>

LockBuilderRuns(t) ==
    LockBuildFirst(t) \/ LockBuildSecond(t) \/ LockBuildIter(t) \/ LockBuildExit(t)

\* on_system_audio, lines 243-245: a callback that finds the running flag set
\* archives its buffer (a temporary guard of SYSTEM_AUDIO_DATA).
LockSysEnter ==
    /\ pc[SYS] = "idle"
    /\ IS_CAPTURING
    /\ SYSTEM_CALLBACK_COUNT < MaxCallbacks
    /\ pc' = [pc EXCEPT ![SYS] = "rt"]
    /\ UNCHANGED <<lock_unused, IS_CAPTURING, rt_lock, SYSTEM_BUFFER, MIC_BUFFER,
                   AUDIO_CHUNK_QUEUE, SYSTEM_CALLBACK_COUNT, MIC_CALLBACK_COUNT, n_starts>>

\* Lines 282-288: SYSTEM_BUFFER.lock().extend(resampled), one window here;
\* the counter is bumped and every build_every-th callback calls the builder.
LockSysRealtime ==
    /\ pc[SYS] = "rt"
    /\ Free("SYSTEM_BUFFER")
    /\ SYSTEM_BUFFER' = SYSTEM_BUFFER \o [j \in 1..chunk_size |-> Value(j)]
    /\ SYSTEM_CALLBACK_COUNT' = SYSTEM_CALLBACK_COUNT + 1
    /\ pc' = [pc EXCEPT ![SYS] = IF SYSTEM_CALLBACK_COUNT % build_every = 0
                                 THEN "build" ELSE "idle"]
    /\ UNCHANGED <<lock_unused, IS_CAPTURING, rt_lock, MIC_BUFFER, AUDIO_CHUNK_QUEUE,
                   MIC_CALLBACK_COUNT, n_starts>>

\* The tap block, lines 368-380.
LockMicEnter ==
    /\ pc[MIC] = "idle"
    /\ IS_CAPTURING
    /\ MIC_CALLBACK_COUNT < MaxCallbacks
    /\ pc' = [pc EXCEPT ![MIC] = "rt"]
    /\ UNCHANGED <<lock_unused, IS_CAPTURING, rt_lock, SYSTEM_BUFFER, MIC_BUFFER,
                   AUDIO_CHUNK_QUEUE, SYSTEM_CALLBACK_COUNT, MIC_CALLBACK_COUNT, n_starts>>

\* Lines 398-405: MIC_BUFFER.lock().extend(resampled), one sample here.
LockMicRealtime ==
    /\ pc[MIC] = "rt"
    /\ Free("MIC_BUFFER")
    /\ MIC_BUFFER' = Append(MIC_BUFFER, Value(1))
    /\ MIC_CALLBACK_COUNT' = MIC_CALLBACK_COUNT + 1
    /\ pc' = [pc EXCEPT ![MIC] = IF MIC_CALLBACK_COUNT % build_every = 0 THEN "build"
                                 ELSE IF MIC_CALLBACK_COUNT % log_every = 0 THEN "log_mic"
                                 ELSE "idle"]
    /\ UNCHANGED <<lock_unused, IS_CAPTURING, rt_lock, SYSTEM_BUFFER, AUDIO_CHUNK_QUEUE,
                   SYSTEM_CALLBACK_COUNT, n_starts>>

\* Lines 407-409, the tap's periodic log: MIC_BUFFER.lock().len(), then
\* SYSTEM_BUFFER.lock().len(), each guard dropped before the next is taken.
LockMicLog ==
    \/ /\ pc[MIC] = "log_mic"
       /\ Free("MIC_BUFFER")
       /\ pc' = [pc EXCEPT ![MIC] = "log_sys"]
       /\ UNCHANGED <<lock_unused, IS_CAPTURING, rt_lock, SYSTEM_BUFFER, MIC_BUFFER,
                      AUDIO_CHUNK_QUEUE, SYSTEM_CALLBACK_COUNT, MIC_CALLBACK_COUNT, n_starts>>
    \/ /\ pc[MIC] = "log_sys"
       /\ Free("SYSTEM_BUFFER")
       /\ pc' = [pc EXCEPT ![MIC] = "idle"]
       /\ UNCHANGED <<lock_unused, IS_CAPTURING, rt_lock, SYSTEM_BUFFER, MIC_BUFFER,
                      AUDIO_CHUNK_QUEUE, SYSTEM_CALLBACK_COUNT, MIC_CALLBACK_COUNT, n_starts>>

\* start_capture, lines 463-464: a start is called; the archival buffers are
\* cleared (temporary guards of their own mutexes).
LockStartCall ==
    /\ pc["h1"] = "idle"
    /\ ~IS_CAPTURING
    /\ n_starts < MaxStarts
    /\ n_starts' = n_starts + 1
    /\ pc' = [pc EXCEPT !["h1"] = "s_clear"]
    /\ UNCHANGED <<lock_unused, IS_CAPTURING, rt_lock, SYSTEM_BUFFER, MIC_BUFFER,
                   AUDIO_CHUNK_QUEUE, SYSTEM_CALLBACK_COUNT, MIC_CALLBACK_COUNT>>

\* Lines 465-469: SYSTEM_BUFFER, MIC_BUFFER and AUDIO_CHUNK_QUEUE are cleared,
\* each under a temporary guard, one after the other; then the counter is
\* reset and the running flag set.
LockStartClear ==
    \/ /\ pc["h1"] = "s_clear"
       /\ Free("SYSTEM_BUFFER")
       /\ SYSTEM_BUFFER' = <<>>
       /\ pc' = [pc EXCEPT !["h1"] = "s_clear_mic"]
       /\ UNCHANGED <<lock_unused, IS_CAPTURING, rt_lock, MIC_BUFFER, AUDIO_CHUNK_QUEUE,
                      SYSTEM_CALLBACK_COUNT, MIC_CALLBACK_COUNT, n_starts>>
    \/ /\ pc["h1"] = "s_clear_mic"
       /\ Free("MIC_BUFFER")
       /\ MIC_BUFFER' = <<>>
       /\ pc' = [pc EXCEPT !["h1"] = "s_clear_queue"]
       /\ UNCHANGED <<lock_unused, IS_CAPTURING, rt_lock, SYSTEM_BUFFER, AUDIO_CHUNK_QUEUE,
                      SYSTEM_CALLBACK_COUNT, MIC_CALLBACK_COUNT, n_starts>>
    \/ /\ pc["h1"] = "s_clear_queue"
       /\ Free("AUDIO_CHUNK_QUEUE")
       /\ AUDIO_CHUNK_QUEUE' = <<>>
       /\ SYSTEM_CALLBACK_COUNT' = 0
       /\ IS_CAPTURING' = TRUE
       /\ pc' = [pc EXCEPT !["h1"] = "idle"]
       /\ UNCHANGED <<lock_unused, rt_lock, SYSTEM_BUFFER, MIC_BUFFER,
                      MIC_CALLBACK_COUNT, n_starts>>

\* stop_capture, lines 618-647: the flag is stored false, the backends are
\* torn down (no lock is taken) and the final builder pass is called.
LockStopCall ==
    /\ pc["h1"] = "idle"
    /\ IS_CAPTURING
    /\ IS_CAPTURING' = FALSE
    /\ pc' = [pc EXCEPT !["h1"] = "build"]
    /\ UNCHANGED <<lock_unused, rt_lock, SYSTEM_BUFFER, MIC_BUFFER, AUDIO_CHUNK_QUEUE,
                   SYSTEM_CALLBACK_COUNT, MIC_CALLBACK_COUNT, n_starts>>

\* Lines 650-651: the archival buffers are taken (temporary guards of their
\* own mutexes) and the file is written.
LockStopTake ==
    /\ pc["h1"] = "t_take"
    /\ pc' = [pc EXCEPT !["h1"] = "idle"]
    /\ UNCHANGED <<lock_unused, IS_CAPTURING, rt_lock, SYSTEM_BUFFER, MIC_BUFFER,
                   AUDIO_CHUNK_QUEUE, SYSTEM_CALLBACK_COUNT, MIC_CALLBACK_COUNT, n_starts>>

\* has_audio_chunks (lines 123-125), then get_audio_chunks (117-120): the
\* host polls, and drains the queue when it was told there are chunks.
LockPoll ==
    \/ /\ pc["h2"] = "idle"
       /\ Free("AUDIO_CHUNK_QUEUE")
       /\ AUDIO_CHUNK_QUEUE # <<>>
       /\ pc' = [pc EXCEPT !["h2"] = "get"]
       /\ UNCHANGED <<lock_unused, IS_CAPTURING, rt_lock, SYSTEM_BUFFER, MIC_BUFFER,
                      AUDIO_CHUNK_QUEUE, SYSTEM_CALLBACK_COUNT, MIC_CALLBACK_COUNT, n_starts>>
    \/ /\ pc["h2"] = "get"
       /\ Free("AUDIO_CHUNK_QUEUE")
       /\ AUDIO_CHUNK_QUEUE' = <<>>
       /\ pc' = [pc EXCEPT !["h2"] = "idle"]
       /\ UNCHANGED <<lock_unused, IS_CAPTURING, rt_lock, SYSTEM_BUFFER, MIC_BUFFER,
                      SYSTEM_CALLBACK_COUNT, MIC_CALLBACK_COUNT, n_starts>>

\* The steps of a thread that is in the middle of a call or callback.
LockRuns(t) ==
    \/ LockBuilderRuns(t)
    \/ (t = SYS /\ LockSysRealtime)
    \/ (t = MIC /\ (LockMicRealtime \/ LockMicLog))
    \/ (t = "h1" /\ (LockStartClear \/ LockStopTake))
    \/ (t = "h2" /\ pc["h2"] = "get" /\ LockPoll)

LockNext ==
    \/ \E t \in Threads : LockBuildFirst(t)
    \/ \E t \in Threads : LockBuildSecond(t)
    \/ \E t \in Threads : LockBuildIter(t)
    \/ \E t \in Threads : LockBuildExit(t)
    \/ LockSysEnter
    \/ LockSysRealtime
    \/ LockMicEnter
    \/ LockMicRealtime
    \/ LockMicLog
    \/ LockStartCall
    \/ LockStartClear
    \/ LockStopCall
    \/ LockStopTake
    \/ LockPoll

LockSpec == LockInit /\ [][LockNext]_vars

\* ------------------------------------------------------------------ steps
\* How a step of a caller shows in the state.  A caller that is idle leaves
\* that position only by a start or stop call, and a call that returns at once
\* shows in `returned`.
StartPcs == {"s_clear", "s_setup", "s_mic", "s_reg"}
StopPcs == {"t_flag", "t_mic", "t_sys", "build", "build_loop", "t_take"}

Returns(c, v) == returned' # returned /\ returned' = [caller |-> c, value |-> v]

\* Caller c makes a host call in this step.
HostStep(c) ==
    /\ pc[c] = "idle"
    /\ \/ pc'[c] # "idle"
       \/ (returned' # returned /\ returned'.caller = c)

StartAccepted(c) == pc[c] = "idle" /\ pc'[c] = "s_clear"
StopTakes(c) == pc[c] = "idle" /\ pc'[c] = "t_flag"

\* ------------------------------------------------------------------ claims

\* C1: a start_audio_capture call made while a session is Running returns the
\* "Already capturing audio" error and changes nothing: the registered
\* session, the running flag, both archival buffers, both realtime buffers,
\* the chunk queue and the backends stay as they were.
C1_StartWhileRunningRejected ==
    [][\A c \in Callers :
          (is_capturing /\ HostStep(c) /\ ~StopTakes(c))
          => /\ Returns(c, "AlreadyCapturing")
             /\ pc'[c] = "idle"
             /\ UNCHANGED <<AUDIO_ENGINE, engine_vars>>]_vars

\* C1 witness: a start was rejected in a Running session that holds archival
\* data, realtime samples and queued chunks.
C1_Witness ==
    /\ returned.value = "AlreadyCapturing"
    /\ is_capturing /\ IS_CAPTURING
    /\ SYSTEM_AUDIO_DATA # <<>> /\ MIC_AUDIO_DATA # <<>>
    /\ MIC_BUFFER # <<>> /\ AUDIO_CHUNK_QUEUE # <<>>

\* C2 (as claimed): of two start calls racing from Idle at most one is
\* accepted, so no second system stream is ever begun: at most one active
\* system stream exists at any time.
C2_AtMostOneSession ==
    /\ live_streams <= 1
    /\ ~(\A c \in Callers : pc[c] = "s_reg")

\* C3 (as claimed): a start call made while a stop is in flight (the session
\* has been taken, teardown and export are not finished) fails at once, and
\* nothing but that stop's own take empties an archival buffer meanwhile.
C3_StartDuringStopRejected ==
    [][/\ \A c \in Callers :
             StartAccepted(c) => \A d \in Callers : pc[d] \notin StopPcs
       /\ (\E d \in Callers : pc[d] \in StopPcs /\ pc'[d] \in StopPcs)
             => /\ Len(SYSTEM_AUDIO_DATA') >= Len(SYSTEM_AUDIO_DATA)
                /\ Len(MIC_AUDIO_DATA') >= Len(MIC_AUDIO_DATA)]_vars

\* C4: a stop_audio_capture call made when the engine is Idle (no session
\* registered, no call in flight) returns the "No active capture" error and
\* changes nothing: no teardown, no builder pass, no file, and the buffers,
\* the queue and the running flag keep their values.
C4_StopWhenIdleRejected ==
    [][\A c \in Callers :
          (/\ ~AUDIO_ENGINE.is_some
           /\ \A d \in Callers : pc[d] = "idle"
           /\ HostStep(c) /\ ~StartAccepted(c))
          => /\ Returns(c, "NoActiveCapture")
             /\ pc'[c] = "idle"
             /\ UNCHANGED <<AUDIO_ENGINE, engine_vars, rt_lock, wav_writes>>]_vars

\* C4 witness: a stop was rejected in an Idle engine that still holds a
\* realtime remainder and queued chunks of the session before.
C4_Witness ==
    /\ returned.value = "NoActiveCapture"
    /\ ~AUDIO_ENGINE.is_some
    /\ \A c \in Callers : pc[c] = "idle"
    /\ AUDIO_CHUNK_QUEUE # <<>> /\ MIC_BUFFER # <<>>

\* C5: stop_audio_capture is not re-entrant.  Of two stop calls on one Running
\* session one takes the session and the other finds none and fails at once
\* with "No active capture"; a session is held by at most one stop and is no
\* longer registered while held; the file of a session is written at most
\* once, and only by the stop that holds it.
C5_OneStopPerSession ==
    /\ [](/\ \A c, d \in Callers :
               (c # d /\ capture_state[c].is_some /\ capture_state[d].is_some)
               => capture_state[c].sid # capture_state[d].sid
          /\ \A c \in Callers :
               capture_state[c].is_some
               => /\ wav_writes[capture_state[c].sid] = 0
                  /\ ~(AUDIO_ENGINE.is_some /\ AUDIO_ENGINE.sid = capture_state[c].sid)
          /\ \A s \in 1..MaxStarts : wav_writes[s] <= 1)
    /\ [][\A c \in Callers :
            /\ StopTakes(c) => (AUDIO_ENGINE.is_some /\ ~AUDIO_ENGINE'.is_some)
            /\ (~AUDIO_ENGINE.is_some /\ HostStep(c) /\ ~StartAccepted(c))
               => (Returns(c, "NoActiveCapture") /\ pc'[c] = "idle")
            /\ wav_writes' # wav_writes
               => \E d \in Callers :
                     /\ pc[d] = "t_take"
                     /\ wav_writes' =
                          [wav_writes EXCEPT ![capture_state[d].sid] = 1]]_vars

\* C5 witness: while one stop holds a session, the other caller's stop was
\* turned away.
C5_Witness ==
    \E c, d \in Callers :
        /\ c # d
        /\ capture_state[c].is_some
        /\ pc[c] \in StopPcs
        /\ returned = [caller |-> d, value |-> "NoActiveCapture"]

\* C6 (as claimed): when the system backend fails to begin during a start, the
\* start returns the error, no microphone backend is begun, and the engine is
\* Idle again: running flag false, is_capturing false, no backend handle
\* registered (so that a later start is accepted).
C6_SetupFailureRestoresIdle ==
    [][\A c \in Callers :
          (pc[c] = "s_setup" /\ pc'[c] = "idle")
          => /\ returned' = [caller |-> c, value |-> "StartFailed"]
             /\ UNCHANGED <<MIC_ENGINE, live_mics>>
             /\ ~IS_CAPTURING'
             /\ ~is_capturing'
             /\ ACTIVE_STREAM' = NULL
             /\ MIC_ENGINE' = NULL]_vars

\* C7 (as claimed): when the microphone was requested and failed to begin, the
\* start still succeeds and the session runs system-only: the call returns
\* Ok, the session is registered, the running flag is true and a system
\* stream is live.
C7_MicFailureStillRuns ==
    [][\A c \in Callers :
          (pc[c] = "s_reg" /\ include_mic[c] = "failed" /\ pc'[c] = "idle")
          => /\ returned' = [caller |-> c, value |-> "Ok"]
             /\ is_capturing'
             /\ IS_CAPTURING'
             /\ ACTIVE_STREAM' # NULL
             /\ live_streams' > 0]_vars

\* C8: a start that succeeds leaves the session registered (is_capturing is
\* true) under the path given to that start; is_capturing stays true until a
\* stop call takes the session and is false from that step on; the stop that
\* ends successfully returns the path given to the start of the session it
\* took.
C8_RunningUntilStop ==
    /\ [](/\ AUDIO_ENGINE.is_some
             => /\ AUDIO_ENGINE.is_capturing
                /\ AUDIO_ENGINE.output_path = PathOf(AUDIO_ENGINE.sid)
          /\ \A c \in Callers :
                capture_state[c].is_some
                => capture_state[c].output_path = PathOf(capture_state[c].sid))
    /\ [][/\ \A c \in Callers :
               /\ (pc[c] = "s_reg" /\ pc'[c] = "idle")
                  => /\ returned' = [caller |-> c, value |-> "Ok"]
                     /\ is_capturing'
                     /\ AUDIO_ENGINE'.sid = sid[c]
               /\ StopTakes(c)
                  => (~is_capturing' /\ capture_state'[c] = AUDIO_ENGINE)
               /\ (pc[c] = "t_take" /\ pc'[c] = "idle" /\ returned'.value # "StopFailed")
                  => returned' = [caller |-> c,
                                  value |-> PathOf(capture_state[c].sid)]
          /\ (is_capturing /\ ~is_capturing') => \E c \in Callers : StopTakes(c)]_vars

\* C8 witness: a stop has returned the path of the second session, which the
\* other caller had started.
C8_Witness ==
    /\ returned.value = PathOf(2)
    /\ wav_writes[2] = 1
    /\ ~is_capturing

\* C9 (as claimed): the final builder pass of a stop flushes what is left in
\* the realtime buffers, a remainder shorter than the window included, so
\* that both realtime buffers are empty when the pass has ended.
C9_StopFlushesRemainder ==
    [][\A c \in Callers :
          (pc[c] \in {"build", "build_loop"} /\ pc'[c] = "t_take")
          => (SYSTEM_BUFFER' = <<>> /\ MIC_BUFFER' = <<>>)]_vars

\* C10: every chunk in the chunk queue is exactly 4 bytes per frame over
\* exactly one window of frames (4 * chunk_size bytes; 6400 in the source).
C10_ChunkIsOneWindow ==
    \A i \in 1..Len(AUDIO_CHUNK_QUEUE) :
        Len(AUDIO_CHUNK_QUEUE[i]) = 4 * chunk_size

\* C10 witness: a queued chunk built when the microphone held fewer samples
\* than a window: its first frame has a microphone sample, its last frame a
\* zero-filled right channel.
C10_Witness ==
    \E i \in 1..Len(AUDIO_CHUNK_QUEUE) :
        LET chunk == AUDIO_CHUNK_QUEUE[i]
        IN  /\ Len(chunk) = 4 * chunk_size
            /\ <<chunk[3], chunk[4]>> # <<0, 0>>
            /\ <<chunk[Len(chunk) - 1], chunk[Len(chunk)]>> = <<0, 0>>

\* ------------------------------------------------------------ chunk contents
\* The little-endian 16-bit sample of channel ch (0 = left, 1 = right) in
\* frame i of a chunk, read back as a number (samples here are never negative).
ChannelSample(chunk, ch, i) ==
    chunk[4 * i - 3 + 2 * ch] + 256 * chunk[4 * i - 2 + 2 * ch]

Frames(chunk) == 1..(Len(chunk) \div 4)
ChannelZero(chunk, ch) == \A i \in Frames(chunk) : ChannelSample(chunk, ch, i) = 0
ChannelPopulated(chunk, ch) == \A i \in Frames(chunk) : ChannelSample(chunk, ch, i) # 0

\* What a system sample v (in eighths) and a microphone sample v (boosted by
\* 1.5 and clamped) come to as 16-bit PCM.
SystemPcm(v) == (32767 * v) \div 8
MicPcm(v) == (32767 * Min(3 * v, 16)) \div 16

\* Thread t takes a step of its builder pass.
BuilderStep(t) ==
    /\ pc[t] = "build_loop"
    /\ rt_lock = t
    /\ \/ pc'[t] # "build_loop"
       \/ SYSTEM_BUFFER' # SYSTEM_BUFFER
       \/ MIC_BUFFER' # MIC_BUFFER
       \/ built_chunks' # built_chunks

\* C11: a builder pass that holds an empty buffer on one side and at least a
\* window of samples on the other does not end without a chunk: its next step
\* pushes one chunk of chunk_size frames in which the channel of the empty
\* side is 0 in every frame and the other channel carries the first
\* chunk_size samples of the non-empty buffer, in order.
C11_EmptySideZeroFilled ==
    [][\A t \in Threads :
          BuilderStep(t) =>
            LET chunk == built_chunks'[Len(built_chunks')]
            IN  /\ (MIC_BUFFER = <<>> /\ Len(SYSTEM_BUFFER) >= chunk_size)
                   => /\ built_chunks' = Append(built_chunks, chunk)
                      /\ AUDIO_CHUNK_QUEUE' = Append(AUDIO_CHUNK_QUEUE, chunk)
                      /\ Frames(chunk) = 1..chunk_size
                      /\ ChannelZero(chunk, 1)
                      /\ \A i \in 1..chunk_size :
                            ChannelSample(chunk, 0, i) = SystemPcm(SYSTEM_BUFFER[i])
                /\ (SYSTEM_BUFFER = <<>> /\ Len(MIC_BUFFER) >= chunk_size)
                   => /\ built_chunks' = Append(built_chunks, chunk)
                      /\ AUDIO_CHUNK_QUEUE' = Append(AUDIO_CHUNK_QUEUE, chunk)
                      /\ Frames(chunk) = 1..chunk_size
                      /\ ChannelZero(chunk, 0)
                      /\ \A i \in 1..chunk_size :
                            ChannelSample(chunk, 1, i) = MicPcm(MIC_BUFFER[i])]_vars

\* C11 witness: both cases have happened: a chunk with a silent right channel
\* and a chunk with a silent left channel have been built, each with distinct
\* samples on its other channel.
C11_Witness ==
    /\ \E i \in 1..Len(built_chunks) :
          /\ ChannelZero(built_chunks[i], 0)
          /\ ChannelPopulated(built_chunks[i], 1)
          /\ ChannelSample(built_chunks[i], 1, 1) # ChannelSample(built_chunks[i], 1, 2)
    /\ \E i \in 1..Len(built_chunks) :
          /\ ChannelZero(built_chunks[i], 1)
          /\ ChannelPopulated(built_chunks[i], 0)
          /\ ChannelSample(built_chunks[i], 0, 1) # ChannelSample(built_chunks[i], 0, 2)

\* C12: the chunk queue is FIFO.  Within a session, the lists returned by the
\* successive get_audio_chunks calls, one after the other, followed by what
\* is still queued, are the chunks in the order they were built.
C12_QueueIsFifo ==
    drained_chunks \o AUDIO_CHUNK_QUEUE = built_chunks

\* C12 witness: chunks that differ were built, one has been returned by a
\* get_audio_chunks call and two more wait in the queue.
C12_Witness ==
    /\ Len(drained_chunks) >= 1
    /\ Len(AUDIO_CHUNK_QUEUE) >= 2
    /\ AUDIO_CHUNK_QUEUE[1] # AUDIO_CHUNK_QUEUE[2]
    /\ drained_chunks[1] # AUDIO_CHUNK_QUEUE[1]

\* C13: get_audio_chunks drains atomically.  A call returns every chunk that
\* is queued when it runs and leaves the queue empty; whatever the builder
\* pushes around it, every chunk built is either in the queue or was returned,
\* by one call and once; has_audio_chunks is true exactly when the queue
\* holds a chunk.
C13_DrainIsAtomic ==
    /\ [](/\ Len(drained_chunks) + Len(AUDIO_CHUNK_QUEUE) = Len(built_chunks)
          /\ has_audio_chunks <=> Len(AUDIO_CHUNK_QUEUE) > 0)
    /\ [][drained_chunks' # drained_chunks /\ drained_chunks' # <<>>
          => /\ drained_chunks' = drained_chunks \o AUDIO_CHUNK_QUEUE
             /\ AUDIO_CHUNK_QUEUE' = <<>>
             /\ ~has_audio_chunks'
             /\ UNCHANGED built_chunks]_vars

\* C13 witness: a get_audio_chunks call has run while a builder pass was under
\* way (the pass holds the realtime guards and has more to push), and a second
\* call has returned chunks after the first.
C13_Witness ==
    /\ \E t \in Threads : pc[t] = "build_loop" /\ rt_lock = t /\ BuildMore
    /\ Len(drained_chunks) >= 2
    /\ AUDIO_CHUNK_QUEUE = <<>>

\* The end-to-end scenario of C14: in the first session the system source has
\* handed over two windows of samples (two callbacks) and the microphone one
\* window (chunk_size callbacks of one sample), every callback has returned,
\* the stop has run its final builder pass and no system sample is left over.
FedTwoAndOne ==
    /\ n_starts = 1
    /\ pc["h1"] = "t_take"
    /\ pc[SYS] = "idle" /\ pc[MIC] = "idle"
    /\ SYSTEM_CALLBACK_COUNT = 2
    /\ MIC_CALLBACK_COUNT = chunk_size
    /\ SYSTEM_BUFFER = <<>>

\* The chunks built so far that carry system samples, by position.
WithSystem == {k \in 1..Len(built_chunks) : ~ChannelZero(built_chunks[k], 0)}

EngineIdle == ~AUDIO_ENGINE.is_some /\ \A c \in Callers : pc[c] = "idle"

\* C15 (as claimed): ingestion is a no-op unless the session is running; in
\* particular, once a stop has handed the archival buffers to the encoder and
\* returned (the running flag is false and no host call is in flight), no
\* callback appends to an archival or realtime buffer, whatever callbacks
\* were in flight during the stop.
C15_NoIngestAfterStop ==
    [][(~IS_CAPTURING /\ EngineIdle)
       => /\ Len(SYSTEM_AUDIO_DATA') <= Len(SYSTEM_AUDIO_DATA)
          /\ Len(MIC_AUDIO_DATA') <= Len(MIC_AUDIO_DATA)
          /\ Len(SYSTEM_BUFFER') <= Len(SYSTEM_BUFFER)
          /\ Len(MIC_BUFFER') <= Len(MIC_BUFFER)]_vars

\* C16 (as claimed): whenever the engine is Idle (before any start, after a
\* failed start, after a completed stop), get_audio_level returns 0.0 and
\* is_capturing returns false.
C16_IdleQueriesNeutral ==
    EngineIdle => (get_current_level = 0 /\ ~is_capturing)

\* C17 (as claimed): when the archival file cannot be written, the stop
\* returns the error to its caller and the engine is left stopped: the
\* running flag is false, is_capturing is false, both backends are torn
\* down, so that a new start is accepted.
C17_WriteFailureStaysStopped ==
    [][\A c \in Callers :
          (pc[c] = "t_take" /\ pc'[c] = "idle" /\ returned'.value = "StopFailed")
          => /\ returned'.caller = c
             /\ ~IS_CAPTURING'
             /\ ~is_capturing'
             /\ ACTIVE_STREAM' = NULL /\ live_streams' = 0
             /\ MIC_ENGINE' = NULL /\ live_mics' = 0]_vars

\* The lifecycle state the host can tell: a stop in flight, a start in flight,
\* a registered session, or none of these.
Lifecycle ==
    IF \E c \in Callers : pc[c] \in StopPcs THEN "Stopping"
    ELSE IF \E c \in Callers : pc[c] \in StartPcs THEN "Starting"
    ELSE IF AUDIO_ENGINE.is_some THEN "Running"
    ELSE "Idle"

Transitions ==
    { <<"Idle", "Starting">>, <<"Starting", "Running">>, <<"Starting", "Idle">>,
      <<"Running", "Stopping">>, <<"Stopping", "Idle">> }

\* C18 (as claimed): every accepted start ends, in Running or back in Idle
\* with an error, every accepted stop ends in Idle, and the lifecycle moves
\* only along Idle -> Starting -> Running -> Stopping -> Idle and
\* Starting -> Idle.
C18_LifecycleSettles ==
    /\ \A c \in Callers : (pc[c] \in StartPcs) ~> (pc[c] = "idle")
    /\ \A c \in Callers : (pc[c] \in StopPcs) ~> (pc[c] = "idle")
    /\ [][Lifecycle' # Lifecycle => <<Lifecycle, Lifecycle'>> \in Transitions]_vars

\* C19: a silent source does not block chunk production.  In a Running
\* session in which one source keeps delivering and the other delivers
\* nothing, whenever the delivering source's realtime buffer holds a window of
\* samples, a builder pass run from one of that source's own callbacks
\* eventually takes them into a chunk: the buffer falls below a window again.
C19_SilentSourceDoesNotBlock ==
    /\ (is_capturing /\ IS_CAPTURING /\ Len(SYSTEM_BUFFER) >= chunk_size)
          ~> (Len(SYSTEM_BUFFER) < chunk_size)
    /\ (is_capturing /\ IS_CAPTURING /\ Len(MIC_BUFFER) >= chunk_size)
          ~> (Len(MIC_BUFFER) < chunk_size)

\* C19 witness: in a session that is still Running the microphone alone has
\* delivered; its samples had piled up over several callbacks and were queued
\* by the pass of a later callback, in chunks with a silent left channel.
C19_Witness ==
    /\ is_capturing /\ IS_CAPTURING
    /\ MIC_CALLBACK_COUNT = SteadyCallbacks
    /\ SYSTEM_BUFFER = <<>> /\ SYSTEM_CALLBACK_COUNT = 0
    /\ Len(MIC_BUFFER) < chunk_size
    /\ Len(built_chunks) >= 2
    /\ \A k \in 1..Len(built_chunks) :
          ChannelZero(built_chunks[k], 0) /\ ChannelPopulated(built_chunks[k], 1)

\* The buffer a callback thread has in hand was delivered before the start
\* of the current session was accepted, and that start has done its clear.
Stale(t) ==
    /\ pc[t] \in {"arch", "rt"}
    /\ cb_data[t].epoch < n_starts
    /\ \A c \in Callers : pc[c] # "s_clear"

\* C20 (as claimed): a start leaves both archival buffers, both realtime
\* buffers and the chunk queue empty when it sets the running flag, and every
\* byte and sample that enters a buffer afterwards was delivered during the new
\* session.
C20_StartsEmpty ==
    [][/\ \A c \in Callers :
             (pc[c] = "s_clear" /\ pc'[c] = "s_setup")
             => /\ IS_CAPTURING'
                /\ SYSTEM_AUDIO_DATA' = <<>> /\ MIC_AUDIO_DATA' = <<>>
                /\ SYSTEM_BUFFER' = <<>> /\ MIC_BUFFER' = <<>>
                /\ AUDIO_CHUNK_QUEUE' = <<>>
       /\ (Len(SYSTEM_AUDIO_DATA') > Len(SYSTEM_AUDIO_DATA)
           \/ Len(SYSTEM_BUFFER') > Len(SYSTEM_BUFFER)) => ~Stale(SYS)
       /\ (Len(MIC_AUDIO_DATA') > Len(MIC_AUDIO_DATA)
           \/ Len(MIC_BUFFER') > Len(MIC_BUFFER)) => ~Stale(MIC)]_vars

\* The step in which a callback's resampled samples reach its realtime buffer.
SysIngested == pc[SYS] = "rt" /\ pc'[SYS] \in {"build", "idle"}
MicIngested == pc[MIC] = "rt" /\ pc'[MIC] \in {"build", "idle"}

\* C21: a mono buffer ingested at a native rate equal to the target rate
\* (16000) is appended to the source's realtime buffer as it is: the same
\* samples, as many, in the same order, on the system path and on the
\* microphone path.
C21_ResampleIdentity ==
    [][/\ (SysIngested /\ CHANNELS = 1 /\ SAMPLE_RATE = target_rate)
             => SYSTEM_BUFFER' = SYSTEM_BUFFER \o cb_data[SYS].samples
       /\ (MicIngested /\ cb_data[MIC].rate = target_rate)
             => MIC_BUFFER' = MIC_BUFFER \o cb_data[MIC].samples]_vars

\* Two mono buffers at 16 kHz, of one sample and of MaxLen samples, have been
\* ingested on the system path, the second one behind the first.
C21_Witness ==
    /\ SAMPLE_RATE = target_rate
    /\ CHANNELS = 1
    /\ SYSTEM_CALLBACK_COUNT = 2
    /\ SYSTEM_BUFFER = Ramp(1) \o Ramp(MaxLen)

\* The little-endian fields of a file, read back at a byte offset.
U16At(f, off) == f[off + 1] + 256 * f[off + 2]
U32At(f, off) == f[off + 1] + 256 * f[off + 2] + 65536 * f[off + 3] + 16777216 * f[off + 4]

\* Caller c's stop writes its file in this step.
Exports(c) == pc[c] = "t_take" /\ wav_writes' # wav_writes

\* C22: from system archival data of N mono samples at rate R and no
\* microphone data, stop writes a file of 44 + N*2*2 bytes whose header holds
\* the format tag 1, 2 channels, the rate R, 16 bits, the byte rate R*4, the
\* block alignment 4, the data size N*4 and the RIFF size 36 + N*4.
C22_WavLayout ==
    [][\A c \in Callers :
          (Exports(c) /\ CHANNELS = 1 /\ MIC_AUDIO_DATA = <<>>)
          => LET N == Len(SYSTEM_AUDIO_DATA)
                 R == SAMPLE_RATE
                 f == stop_wav
             IN  /\ Len(f) = 44 + N * 2 * 2
                 /\ SubSeq(f, 1, 4) = <<82, 73, 70, 70>>
                 /\ U32At(f, 4) = 36 + N * 4
                 /\ U16At(f, 20) = 1
                 /\ U16At(f, 22) = 2
                 /\ U32At(f, 24) = R
                 /\ U32At(f, 28) = R * 4
                 /\ U16At(f, 32) = 4
                 /\ U16At(f, 34) = 16
                 /\ U32At(f, 40) = N * 4]_vars

\* A session fed two mono system buffers at 8 kHz and nothing by the
\* microphone has been stopped and its file written.
C22_Witness ==
    /\ returned = [caller |-> "h1", value |-> PathOf(1)]
    /\ wav_writes[1] = 1
    /\ CHANNELS = 1
    /\ SAMPLE_RATE = 8000
    /\ SYSTEM_CALLBACK_COUNT = 2
    /\ MIC_CALLBACK_COUNT = 0

\* Caller c comes to position p in this step.
Reaches(c, p) == pc[c] # p /\ pc'[c] = p

\* C23: stop keeps its order.  The running flag is stored false first, with
\* both backends untouched; the microphone backend is torn down next, the
\* system backend still untouched; the system backend is torn down after it;
\* the final builder pass begins only then; and the archival buffers are
\* taken only by a stop that has come out of that pass.
C23_StopOrder ==
    [][\A c \in Callers :
          /\ Reaches(c, "t_mic")
                => /\ pc[c] = "t_flag" /\ ~IS_CAPTURING'
                   /\ UNCHANGED <<MIC_ENGINE, ACTIVE_STREAM, live_mics, live_streams>>
          /\ Reaches(c, "t_sys")
                => /\ pc[c] = "t_mic" /\ MIC_ENGINE' = NULL
                   /\ live_mics' = live_mics - (IF MIC_ENGINE # NULL THEN 1 ELSE 0)
                   /\ UNCHANGED <<ACTIVE_STREAM, live_streams>>
          /\ Reaches(c, "build")
                => /\ pc[c] = "t_sys" /\ ACTIVE_STREAM' = NULL
                   /\ live_streams' = live_streams - (IF ACTIVE_STREAM # NULL THEN 1 ELSE 0)
                   /\ UNCHANGED <<AUDIO_CHUNK_QUEUE, SYSTEM_BUFFER, MIC_BUFFER>>
          /\ Reaches(c, "t_take")
                => /\ pc[c] \in {"build", "build_loop"}
                   /\ UNCHANGED <<SYSTEM_AUDIO_DATA, MIC_AUDIO_DATA, wav_writes>>
          /\ (capture_state[c].is_some /\ ~capture_state'[c].is_some)
                => /\ pc[c] = "t_take"
                   /\ SYSTEM_AUDIO_DATA' = <<>> /\ MIC_AUDIO_DATA' = <<>>]_vars

\* A session with both backends running and data from both has been stopped:
\* the final pass has pushed a chunk and the file is written.
C23_Witness ==
    /\ returned = [caller |-> "h1", value |-> PathOf(1)]
    /\ wav_writes[1] = 1
    /\ SYSTEM_CALLBACK_COUNT >= 1
    /\ MIC_CALLBACK_COUNT >= 1
    /\ MIC_ENGINE = NULL /\ ACTIVE_STREAM = NULL
    /\ built_chunks # <<>>

\* C24: the builder is try-lock-and-skip.  An invocation that arrives (from a
\* callback or from stop) while another invocation holds the builder is not
\* held up: it has its next step to take at once, which is its return, and so
\* it neither waits nor drains.
C24_BuilderSkipsWhenBusy ==
    \A t \in Threads :
        (pc[t] = "build" /\ rt_lock # NULL /\ rt_lock # t) => ENABLED BuilderRuns(t)

\* The samples of channel ch (0 = left, 1 = right) the chunks hold, in the
\* order emitted, the zero fill left out (no sample delivered is 0).
NonZero(x) == x # 0
EmittedOf(chunk, ch) ==
    SelectSeq([i \in Frames(chunk) |-> ChannelSample(chunk, ch, i)], NonZero)
RECURSIVE Emitted(_, _)
Emitted(chunks, ch) ==
    IF chunks = <<>> THEN <<>>
    ELSE Emitted(SubSeq(chunks, 1, Len(chunks) - 1), ch) \o EmittedOf(chunks[Len(chunks)], ch)

InLoop == {t \in Threads : pc[t] = "build_loop"}

\* C25: the builder's critical section is mutually exclusive over all its
\* trigger paths.  At most one invocation is in the drain loop, and it holds
\* the guards; no producer appends to a realtime buffer while an invocation
\* holds them; and no realtime sample goes into two chunks: through the first
\* session, what the chunks hold of a source followed by what is left in its
\* realtime buffer is what the source has appended, each sample once and in
\* order.
C25_BuilderExclusive ==
    /\ [](/\ Cardinality(InLoop) <= 1
          /\ \A t \in InLoop : rt_lock = t
          /\ n_starts = 1
                => /\ Emitted(built_chunks, 0)
                        \o [i \in 1..Len(SYSTEM_BUFFER) |-> SystemPcm(SYSTEM_BUFFER[i])]
                      = [k \in 1..(SYSTEM_CALLBACK_COUNT * chunk_size) |-> SystemPcm(Value(k))]
                   /\ Emitted(built_chunks, 1)
                        \o [i \in 1..Len(MIC_BUFFER) |-> MicPcm(MIC_BUFFER[i])]
                      = [k \in 1..MIC_CALLBACK_COUNT |-> MicPcm(Value(k))])
    /\ [][(Len(SYSTEM_BUFFER') > Len(SYSTEM_BUFFER) \/ Len(MIC_BUFFER') > Len(MIC_BUFFER))
             => (rt_lock = NULL /\ InLoop = {})]_vars

\* Two invocations have met: one is in the drain loop while another waits at
\* the builder's entry, and a chunk has been pushed already.
C25_Witness ==
    /\ InLoop # {}
    /\ \E t \in Threads \ InLoop : pc[t] = "build"
    /\ built_chunks # <<>>

\* The buffers a source has archived so far in this session: those of its
\* counted callbacks and the one of a callback between its two appends.
SysArchived == SYSTEM_CALLBACK_COUNT + (IF pc[SYS] = "rt" THEN 1 ELSE 0)
MicArchived == MIC_CALLBACK_COUNT + (IF pc[MIC] = "rt" THEN 1 ELSE 0)

\* C26: while the session is Running each archival buffer is append-only.  A
\* step either leaves it as it is or is its own source's ingest, which puts
\* the callback's raw buffer at its end; the builder and the other source's
\* callbacks never change it; and (through the first session) it is the
\* concatenation, in callback order, of the raw buffers its source delivered.
C26_ArchiveAppendOnly ==
    /\ [][(is_capturing /\ is_capturing')
            => /\ \/ SYSTEM_AUDIO_DATA' = SYSTEM_AUDIO_DATA
                  \/ /\ pc[SYS] = "arch" /\ pc'[SYS] = "rt"
                     /\ SYSTEM_AUDIO_DATA' = SYSTEM_AUDIO_DATA \o cb_data[SYS].samples
                     /\ MIC_AUDIO_DATA' = MIC_AUDIO_DATA
               /\ \/ MIC_AUDIO_DATA' = MIC_AUDIO_DATA
                  \/ /\ pc[MIC] = "arch" /\ pc'[MIC] = "rt"
                     /\ MIC_AUDIO_DATA' = MIC_AUDIO_DATA \o cb_data[MIC].samples
                     /\ SYSTEM_AUDIO_DATA' = SYSTEM_AUDIO_DATA]_vars
    /\ []((is_capturing /\ n_starts = 1)
            => /\ SYSTEM_AUDIO_DATA
                    = [j \in 1..(6 * chunk_size * SysArchived) |-> Value(1 + (j - 1) \div 6)]
               /\ MIC_AUDIO_DATA
                    = [j \in 1..(3 * MicArchived) |-> Value(1 + (j - 1) \div 3)])

\* C27: tearing down an absent backend is a no-op and never an error.  The
\* microphone teardown of a stop that finds no engine registered changes
\* nothing and goes on to the system teardown; the system teardown stops and
\* releases the stream that is there (and none if there is none) and goes on
\* to the final builder pass; neither gives the call a result; and the only
\* results a stop in progress gives are those of its export: the session's
\* output path with the file written, or the failure of that write.
C27_AbsentTeardownNoOp ==
    [][\A c \in Callers :
          /\ (pc[c] = "t_mic" /\ pc'[c] # "t_mic" /\ MIC_ENGINE = NULL)
                => /\ pc'[c] = "t_sys"
                   /\ UNCHANGED <<MIC_ENGINE, live_mics, ACTIVE_STREAM, live_streams,
                                  returned, capture_state, wav_writes,
                                  SYSTEM_AUDIO_DATA, MIC_AUDIO_DATA, AUDIO_CHUNK_QUEUE>>
          /\ (pc[c] = "t_sys" /\ pc'[c] # "t_sys")
                => /\ pc'[c] = "build"
                   /\ ACTIVE_STREAM' = NULL
                   /\ live_streams' = live_streams - (IF ACTIVE_STREAM # NULL THEN 1 ELSE 0)
                   /\ UNCHANGED <<returned, capture_state, wav_writes>>
          /\ (capture_state[c].is_some /\ pc'[c] = "idle")
                => /\ pc[c] = "t_take"
                   /\ returned'.caller = c
                   /\ \/ /\ returned'.value = capture_state[c].output_path
                         /\ wav_writes'[capture_state[c].sid]
                                = wav_writes[capture_state[c].sid] + 1
                      \/ /\ returned'.value = "StopFailed"
                         /\ wav_writes' = wav_writes]_vars

\* A stop has stored the flag and stands at its microphone teardown with no
\* engine registered (the session's microphone was off or failed to start),
\* the system stream still running and a system buffer archived.
C27_Witness ==
    /\ pc["h1"] = "t_mic"
    /\ ~IS_CAPTURING
    /\ MIC_ENGINE = NULL /\ live_mics = 0
    /\ ACTIVE_STREAM # NULL
    /\ SYSTEM_AUDIO_DATA # <<>>

\* Division rounded to the nearest integer (halves upwards).
RoundDiv(a, b) == (2 * a + b) \div (2 * b)

\* C28: for a mono input of L samples at a native rate R, ingestion appends
\* round(L * 16000 / R) samples to the source's realtime buffer, on the
\* system path (L frames of one channel, or of two) and on the microphone
\* path.
C28_ResampleLengthRounded ==
    [][/\ (SysIngested /\ SAMPLE_RATE > 0 /\ CHANNELS \in {1, 2}
             /\ Len(cb_data[SYS].samples) % CHANNELS = 0)
             => Len(SYSTEM_BUFFER') - Len(SYSTEM_BUFFER)
                  = RoundDiv((Len(cb_data[SYS].samples) \div CHANNELS) * target_rate,
                             SAMPLE_RATE)
       /\ (MicIngested /\ cb_data[MIC].rate > 0)
             => Len(MIC_BUFFER') - Len(MIC_BUFFER)
                  = RoundDiv(Len(cb_data[MIC].samples) * target_rate, cb_data[MIC].rate)]_vars

\* The realtime step of a callback is taken.
SysResampled == pc[SYS] = "rt" /\ pc'[SYS] # "rt"
MicResampled == pc[MIC] = "rt" /\ pc'[MIC] # "rt"

\* C29: malformed input has no error outcome.  A system buffer whose sample
\* count is not a multiple of the channel count, or a buffer of either
\* source at a native rate of zero, appends nothing to the realtime buffer,
\* and the process goes on.
C29_MalformedAppendsNothing ==
    [][/\ (SysResampled /\ (Len(cb_data[SYS].samples) % CHANNELS # 0 \/ SAMPLE_RATE = 0))
             => /\ SYSTEM_BUFFER' = SYSTEM_BUFFER
                /\ pc'[SYS] # "aborted"
       /\ (MicResampled /\ cb_data[MIC].rate = 0)
             => /\ MIC_BUFFER' = MIC_BUFFER
                /\ pc'[MIC] # "aborted"]_vars

\* The frames of an interleaved buffer of `channels` channels, each averaged
\* over all its channels.
RECURSIVE FrameSum(_, _, _)
FrameSum(samples, first, n) ==
    IF n = 0 THEN 0 ELSE samples[first] + FrameSum(samples, first + 1, n - 1)

FrameAverage(samples, channels) ==
    [k \in 1..(Len(samples) \div channels) |->
        FrameSum(samples, channels * (k - 1) + 1, channels) \div channels]

\* C30: for every channel count C greater than 1 a system buffer of F frames
\* (F*C samples) is down-mixed to F mono samples, each the average of the C
\* samples of its frame, and these are what is resampled and appended; and
\* the left channel of the file a stop writes holds one frame for each frame
\* of the system archival data, made from the same averages.
C30_DownmixAllChannels ==
    [][/\ (SysIngested /\ CHANNELS > 1 /\ SAMPLE_RATE > 0
             /\ Len(cb_data[SYS].samples) % CHANNELS = 0)
             => SYSTEM_BUFFER' = SYSTEM_BUFFER
                  \o resample(FrameAverage(cb_data[SYS].samples, CHANNELS), SAMPLE_RATE)
       /\ \A c \in Callers :
             (Exports(c) /\ CHANNELS > 1 /\ Len(SYSTEM_AUDIO_DATA) % CHANNELS = 0)
             => create_stereo_wav(SYSTEM_AUDIO_DATA, MIC_AUDIO_DATA, CHANNELS)
                  = wav_frames(FrameAverage(SYSTEM_AUDIO_DATA, CHANNELS), MIC_AUDIO_DATA,
                               Max(Len(SYSTEM_AUDIO_DATA) \div CHANNELS,
                                   Len(MIC_AUDIO_DATA)))]_vars

\* C31: the archival encoder's output has max(S, M) stereo frames of four
\* bytes, S the mono system samples after the down-mix and M the microphone
\* samples.  The left half of frame i is the system sample i, the right half
\* the (boosted) microphone sample i, each quantized to 16 bits; past the end
\* of a stream its half is 0.
C31_EncoderZeroFills ==
    [][\A c \in Callers :
          Exports(c)
          => LET system_mono == downmix(SYSTEM_AUDIO_DATA, CHANNELS)
                 S == Len(system_mono)
                 M == Len(MIC_AUDIO_DATA)
                 pcm == create_stereo_wav(SYSTEM_AUDIO_DATA, MIC_AUDIO_DATA, CHANNELS)
             IN  /\ Len(pcm) = 4 * Max(S, M)
                 /\ \A i \in 1..Max(S, M) :
                       /\ SubSeq(pcm, 4 * i - 3, 4 * i - 2)
                            = IF i <= S THEN to_le_bytes(quantize(system_mono[i], 8))
                              ELSE <<0, 0>>
                       /\ SubSeq(pcm, 4 * i - 1, 4 * i)
                            = IF i <= M THEN to_le_bytes(quantize(3 * MIC_AUDIO_DATA[i], 16))
                              ELSE <<0, 0>>]_vars

\* A stop is about to take and encode archives of different lengths, the
\* system one the longer, both holding samples.
C31_Witness ==
    /\ pc["h1"] = "t_take"
    /\ MIC_AUDIO_DATA # <<>>
    /\ Len(downmix(SYSTEM_AUDIO_DATA, CHANNELS)) > Len(MIC_AUDIO_DATA)

\* A builder pass pushes a chunk in this step.
Iterates == Len(built_chunks') = Len(built_chunks) + 1

\* C32: every builder pass terminates and leaves both realtime buffers below
\* one window.  An iteration is taken only while a buffer holds a window or
\* more; it removes n = min(window, max(len(system), len(mic))) samples, at
\* least one, from the front of each buffer, and empties a buffer that holds
\* fewer than n; the pass returns with fewer than a window in each buffer;
\* and a thread that has called the builder comes out of it.
C32_BuilderPassTerminates ==
    /\ [][/\ Iterates
              => LET n == Min(chunk_size, Max(Len(SYSTEM_BUFFER), Len(MIC_BUFFER)))
                 IN  /\ Len(SYSTEM_BUFFER) >= chunk_size \/ Len(MIC_BUFFER) >= chunk_size
                     /\ n >= 1
                     /\ SYSTEM_BUFFER' = IF Len(SYSTEM_BUFFER) >= n
                                         THEN SubSeq(SYSTEM_BUFFER, n + 1, Len(SYSTEM_BUFFER))
                                         ELSE <<>>
                     /\ MIC_BUFFER' = IF Len(MIC_BUFFER) >= n
                                      THEN SubSeq(MIC_BUFFER, n + 1, Len(MIC_BUFFER))
                                      ELSE <<>>
          /\ \A t \in Threads :
                (pc[t] \in {"build", "build_loop"} /\ pc'[t] \notin {"build", "build_loop"})
                => /\ Len(SYSTEM_BUFFER') < chunk_size
                   /\ Len(MIC_BUFFER') < chunk_size]_vars
    /\ \A t \in Threads :
          (pc[t] \in {"build", "build_loop"}) ~> (pc[t] \notin {"build", "build_loop"})

\* A pass has returned that found a window in the system buffer and a single
\* sample in the microphone buffer: its chunk holds the window on the left
\* and the sample and a zero on the right, and both buffers were left empty.
C32_Witness ==
    /\ \A t \in Threads : pc[t] \notin {"build", "build_loop"}
    /\ rt_lock = NULL
    /\ SYSTEM_BUFFER = <<>> /\ MIC_BUFFER = <<>>
    /\ \E k \in 1..Len(built_chunks) :
          /\ ChannelPopulated(built_chunks[k], 0)
          /\ ChannelSample(built_chunks[k], 1, 1) # 0
          /\ ChannelSample(built_chunks[k], 1, chunk_size) = 0

\* The level of the buffer the system backend hands over next.
LevelsDelivered == { calc_level(d.samples) : d \in SysDeliveries }

\* C33: the level is written by the system callbacks alone, whatever the
\* capture state.  A step that changes it is the entry of a system callback
\* (no other thread moves, no buffer, queue, flag or session changes) and
\* leaves the level of the delivered buffer; a callback that goes on to
\* ingest has stored the level of its buffer; with the running flag false
\* and the stream still delivering, the callback that comes stores the level
\* of its buffer all the same; and the level stays within [0, 1].
C33_LevelFromSystemCallbacks ==
    /\ [][/\ (CURRENT_LEVEL' # CURRENT_LEVEL)
              => /\ pc[SYS] = "idle" /\ live_streams > 0
                 /\ CURRENT_LEVEL' \in LevelsDelivered
                 /\ \A t \in Threads \ {SYS} : pc'[t] = pc[t]
                 /\ UNCHANGED <<engine_vars, AUDIO_ENGINE, returned, rt_lock,
                                SYSTEM_CALLBACK_COUNT, MIC_CALLBACK_COUNT,
                                capture_state, wav_writes, built_chunks, drained_chunks>>
          /\ (pc[SYS] = "idle" /\ pc'[SYS] = "arch")
              => CURRENT_LEVEL' = calc_level(cb_data'[SYS].samples)]_vars
    /\ [](CURRENT_LEVEL \in 0..100)
    /\ []((~IS_CAPTURING /\ pc[SYS] = "idle" /\ live_streams > 0
            /\ SYSTEM_CALLBACK_COUNT < MaxCallbacks)
           => \A l \in LevelsDelivered :
                 ENABLED (PipelineNext /\ CURRENT_LEVEL' = l))

\* After one buffer was ingested and the running flag was stored false, a
\* second buffer has come in: it was not ingested, and the level is that of
\* the second buffer.
C33_Witness ==
    /\ ~IS_CAPTURING
    /\ pc[SYS] = "idle"
    /\ SYSTEM_CALLBACK_COUNT = 1
    /\ Len(SYSTEM_AUDIO_DATA) = 6 * chunk_size
    /\ CURRENT_LEVEL \in LevelsDelivered
    /\ CURRENT_LEVEL # calc_level([j \in 1..(6 * chunk_size) |-> Value(1 + (j - 1) \div 6)])

\* What has gone through a source's realtime buffer since the last clear, as
\* 16-bit samples: what the chunks built hold of it, in chunk order, and
\* behind that what the buffer holds now.
SystemFlow ==
    Emitted(built_chunks, 0) \o [i \in 1..Len(SYSTEM_BUFFER) |-> SystemPcm(SYSTEM_BUFFER[i])]
MicFlow ==
    Emitted(built_chunks, 1) \o [i \in 1..Len(MIC_BUFFER) |-> MicPcm(MIC_BUFFER[i])]

\* This step is a start's clearing of the buffers and the queue.
Clears == \E c \in Callers : pc[c] = "s_clear" /\ pc'[c] # "s_clear"

\* C34: realtime samples are conserved in order.  Between two clears, a step
\* changes what has gone through a source's realtime buffer only by putting
\* the resampled samples of that source's callback at its end; the builder,
\* the drain of the queue, the other source and stop leave it as it is: no
\* sample is dropped, duplicated or reordered.
C34_RealtimeSamplesConserved ==
    [][~Clears
         => /\ \/ SystemFlow' = SystemFlow
               \/ /\ SysIngested
                  /\ SystemFlow' = SystemFlow
                        \o LET appended == resample(downmix(cb_data[SYS].samples, CHANNELS),
                                                    SAMPLE_RATE)
                           IN  [i \in 1..Len(appended) |-> SystemPcm(appended[i])]
            /\ \/ MicFlow' = MicFlow
               \/ /\ MicIngested
                  /\ MicFlow' = MicFlow
                        \o LET appended == resample(cb_data[MIC].samples, cb_data[MIC].rate)
                           IN  [i \in 1..Len(appended) |-> MicPcm(appended[i])]]_vars

\* A chunk holding samples of both sources has been built, a microphone
\* sample that came after it waits in its buffer, and the system source has
\* appended its second window.
C34_Witness ==
    /\ Emitted(built_chunks, 0) # <<>>
    /\ Emitted(built_chunks, 1) # <<>>
    /\ MIC_BUFFER # <<>>
    /\ SYSTEM_CALLBACK_COUNT = 2

\* The mutex thread t waits for, or NULL: the guard its next step takes.
Wants(t) ==
    CASE pc[t] = "build" -> guard_order(t)[1]
      [] pc[t] = "build_second" -> guard_order(t)[2]
      [] pc[t] = "build_loop" /\ BuildMore -> "AUDIO_CHUNK_QUEUE"
      [] pc[t] = "rt" /\ t = SYS -> "SYSTEM_BUFFER"
      [] pc[t] = "rt" /\ t = MIC -> "MIC_BUFFER"
      [] pc[t] \in {"log_sys", "s_clear"} -> "SYSTEM_BUFFER"
      [] pc[t] \in {"log_mic", "s_clear_mic"} -> "MIC_BUFFER"
      [] pc[t] \in {"s_clear_queue", "get"} -> "AUDIO_CHUNK_QUEUE"
      [] OTHER -> NULL

\* Thread t waits for a guard that another thread holds.
Blocked(t) == Wants(t) # NULL /\ rt_lock[Wants(t)] \notin {NULL, t}

\* C35: the engine is deadlock-free.  No set of threads is such that each
\* waits for a guard held by another of the set; and whenever a thread is in
\* the middle of a call or callback, some such thread has a step to take.
C35_DeadlockFree ==
    /\ \A S \in SUBSET Threads :
          S # {} => \E t \in S : ~(Blocked(t) /\ rt_lock[Wants(t)] \in S)
    /\ (\E t \in Threads : pc[t] # "idle") => \E t \in Threads : ENABLED LockRuns(t)

\* A pass holds both guards while three other threads wait for one of them:
\* stop's final pass and the microphone's append, and the host's start is
\* not in the way.
C35_Witness ==
    /\ pc[SYS] = "build_loop"
    /\ rt_lock["SYSTEM_BUFFER"] = SYS /\ rt_lock["MIC_BUFFER"] = SYS
    /\ Blocked("h1") /\ pc["h1"] = "build"
    /\ Blocked(MIC)
    /\ pc["h2"] = "get"

\* C36: the host-visible session state and the engine's capture state
\* agree.  Whenever is_capturing() returns true the running flag is true and
\* the system stream is registered, whatever the order of the start and stop
\* calls.
C36_SessionAgreesWithEngine ==
    is_capturing => (IS_CAPTURING /\ ACTIVE_STREAM # NULL)

\* Sequence p is an initial part of sequence q.
IsPrefix(p, q) == Len(p) <= Len(q) /\ SubSeq(q, 1, Len(p)) = p

\* Caller c's stop takes a step: it moves on, or its final pass pushes a chunk.
StopSteps(c) ==
    /\ pc[c] \in StopPcs
    /\ pc'[c] # pc[c] \/ (rt_lock = c /\ Iterates)

\* C37: stop does not discard queued chunks.  Every step of a stop leaves
\* the chunks that are queued where they are (its final pass puts its chunks
\* behind them); and a chunk leaves the queue only when get_audio_chunks
\* returns the whole queue to the host or when a start clears it.
C37_StopKeepsQueuedChunks ==
    [][/\ \A c \in Callers :
             StopSteps(c) => IsPrefix(AUDIO_CHUNK_QUEUE, AUDIO_CHUNK_QUEUE')
       /\ \/ IsPrefix(AUDIO_CHUNK_QUEUE, AUDIO_CHUNK_QUEUE')
          \/ /\ AUDIO_CHUNK_QUEUE' = <<>>
             /\ drained_chunks' = drained_chunks \o AUDIO_CHUNK_QUEUE
          \/ Clears]_vars

\* A stop has returned and the queue still holds two chunks nobody has
\* drained: the one of the first system callback's pass and the one that
\* stop's final pass made of the second system buffer.
C37_Witness ==
    /\ returned = [caller |-> "h1", value |-> PathOf(1)]
    /\ wav_writes[1] = 1
    /\ pc["h1"] = "idle" /\ pc[SYS] = "idle"
    /\ SYSTEM_CALLBACK_COUNT = 2
    /\ MIC_CALLBACK_COUNT = 0
    /\ Len(AUDIO_CHUNK_QUEUE) = 2
    /\ drained_chunks = <<>>

\* ------------------------------------------------- a recording of hours
\* The archival buffers grow for as long as a session runs (audio.rs:245 and
\* 380), and a u32 holds the byte count of about six hours of 48 kHz audio.
\* A buffer of that size cannot be held as a sequence, so LongSpec keeps of
\* the system archive only its size: SYSTEM_AUDIO_DATA is the number of mono
\* f32 samples in it, a usize, written as two digits <<high, low>> of base
\* 2^16.  The session is mono with no microphone, and every other variable
\* is as in Init.
Limb == 256 * 256

\* How far around the ends of the u32 range the archive sizes are taken.
HeaderSpan == 2

\* usize arithmetic on <<high, low>>
limbs(n) == <<n \div Limb, n % Limb>>
limbs_add(a, b) == <<a[1] + b[1] + ((a[2] + b[2]) \div Limb), (a[2] + b[2]) % Limb>>
limbs_mul(a, k) == <<a[1] * k + ((a[2] * k) \div Limb), (a[2] * k) % Limb>>

\* `as u32` of a usize, lines 710: the low 32 bits
as_u32(n) == <<n[1] % Limb, n[2]>>

\* u32 `+` of line 45: whether it overflows, and the wrapped sum
add_overflows(a, b) == limbs_add(a, b)[1] >= Limb
wrapping_add(a, b) == as_u32(limbs_add(a, b))

\* u32::to_le_bytes, and the value four such bytes encode
u32_bytes(v) == <<v[2] % 256, v[2] \div 256, v[1] % 256, v[1] \div 256>>
u32_value(b) == <<b[4] * 256 + b[3], b[2] * 256 + b[1]>>

\* create_stereo_wav, lines 689-705, by size: max_len frames of two i16.
long_pcm_len(frames) == limbs_mul(frames, 4)

\* WavHeader::write_header, src/audio.rs:42-69, with data_size a u32 in two
\* digits: the same 44 bytes as write_header, the sum of line 45 wrapped.
long_write_header(sample_rate, channels, bits_per_sample, data_size) ==
    LET byte_rate == (sample_rate * channels * bits_per_sample) \div 8
        block_align == ((channels * bits_per_sample) % 65536) \div 8
        file_size == wrapping_add(limbs(36), data_size)
    IN  <<82, 73, 70, 70>> \o u32_bytes(file_size)
        \o <<87, 65, 86, 69>> \o <<102, 109, 116, 32>> \o u32_le(16) \o u16_le(1)
        \o u16_le(channels) \o u32_le(sample_rate) \o u32_le(byte_rate)
        \o u16_le(block_align) \o u16_le(bits_per_sample)
        \o <<100, 97, 116, 97>> \o u32_bytes(data_size)

\* The archive sizes a long session starts from: a few samples, and the
\* sizes whose PCM is around 2^32 - 36 and 2^32 bytes.
LongFrames ==
    { limbs(n) : n \in 0..HeaderSpan }
    \cup { limbs(n) : n \in (16384 * Limb - (36 \div 4) - HeaderSpan)..(16384 * Limb + HeaderSpan) }

LongInit ==
    /\ AUDIO_ENGINE = [is_some |-> TRUE, is_capturing |-> TRUE,
                       output_path |-> PathOf(1), sid |-> 1]
    /\ CURRENT_LEVEL = 0
    /\ IS_CAPTURING = TRUE
    /\ SAMPLE_RATE = 48000
    /\ CHANNELS = 1
    /\ SYSTEM_AUDIO_DATA \in LongFrames
    /\ MIC_AUDIO_DATA = <<>>
    /\ AUDIO_CHUNK_QUEUE = <<>>
    /\ SYSTEM_BUFFER = <<>>
    /\ MIC_BUFFER = <<>>
    /\ ACTIVE_STREAM = "stream"
    /\ MIC_ENGINE = NULL
    /\ SYSTEM_CALLBACK_COUNT = 0
    /\ MIC_CALLBACK_COUNT = 0
    /\ rt_lock = NULL
    /\ live_streams = 1
    /\ live_mics = 0
    /\ pc = [t \in Threads |-> "idle"]
    /\ include_mic = [c \in Callers |-> "off"]
    /\ capture_state = [c \in Callers |-> None]
    /\ cb_data = [t \in {SYS, MIC} |-> NoData]
    /\ returned = [caller |-> "h1", value |-> "started"]
    /\ n_starts = 1
    /\ sid = [c \in Callers |-> 0]
    /\ wav_writes = [s \in 1..MaxStarts |-> 0]
    /\ built_chunks = <<>>
    /\ drained_chunks = <<>>

long_unused == <<CURRENT_LEVEL, SAMPLE_RATE, CHANNELS, MIC_AUDIO_DATA,
                 AUDIO_CHUNK_QUEUE, SYSTEM_BUFFER, MIC_BUFFER, MIC_ENGINE,
                 MIC_CALLBACK_COUNT, rt_lock, live_mics, include_mic, cb_data,
                 n_starts, sid, built_chunks, drained_chunks>>

\* on_system_audio, line 245: a callback of k mono samples extends the
\* archive by k.
LongArchive(k) ==
    /\ pc[SYS] = "idle"
    /\ IS_CAPTURING
    /\ live_streams > 0
    /\ SYSTEM_CALLBACK_COUNT < MaxCallbacks
    /\ SYSTEM_AUDIO_DATA' = limbs_add(SYSTEM_AUDIO_DATA, limbs(k))
    /\ SYSTEM_CALLBACK_COUNT' = SYSTEM_CALLBACK_COUNT + 1
    /\ UNCHANGED <<AUDIO_ENGINE, IS_CAPTURING, ACTIVE_STREAM, live_streams, pc,
                   capture_state, returned, wav_writes>>
    /\ UNCHANGED long_unused

\* stop_audio_capture and stop_capture up to the final builder pass,
\* lib.rs:231-244 and audio.rs:616-647: the session is taken, the flag
\* cleared, the stream released.
LongStop(c) ==
    /\ pc[c] = "idle"
    /\ AUDIO_ENGINE.is_some
    /\ capture_state' = [capture_state EXCEPT ![c] = AUDIO_ENGINE]
    /\ AUDIO_ENGINE' = None
    /\ IS_CAPTURING' = FALSE
    /\ ACTIVE_STREAM' = NULL
    /\ live_streams' = 0
    /\ pc' = [pc EXCEPT ![c] = "t_take"]
    /\ UNCHANGED <<SYSTEM_AUDIO_DATA, SYSTEM_CALLBACK_COUNT, returned, wav_writes>>
    /\ UNCHANGED long_unused

\* stop_capture, lines 650-662, and write_wav, 708-716: the archive is
\* taken and encoded, the header is made of `pcm.len() as u32` and written
\* before the PCM.  A build with overflow checks panics in the sum of
\* src/audio.rs:45 when it does not fit; a build without them wraps it.
\* `returned` is here what the file got: its header and the size of its PCM.
LongExport(c, overflow_checks) ==
    /\ pc[c] = "t_take"
    /\ LET pcm_len == long_pcm_len(SYSTEM_AUDIO_DATA)
           data_size == as_u32(pcm_len)
       IN  IF overflow_checks /\ add_overflows(limbs(36), data_size)
           THEN /\ \E outcome \in PanicOutcomes : pc' = [pc EXCEPT ![c] = outcome]
                /\ UNCHANGED <<returned, wav_writes>>
           ELSE /\ returned' = [caller |-> c,
                                value |-> [header |-> long_write_header(SAMPLE_RATE, 2, 16, data_size),
                                           pcm_len |-> pcm_len]]
                /\ wav_writes' = [wav_writes EXCEPT ![capture_state[c].sid] = @ + 1]
                /\ pc' = [pc EXCEPT ![c] = "idle"]
    /\ SYSTEM_AUDIO_DATA' = limbs(0)
    /\ capture_state' = [capture_state EXCEPT ![c] = None]
    /\ UNCHANGED <<AUDIO_ENGINE, IS_CAPTURING, ACTIVE_STREAM, live_streams,
                   SYSTEM_CALLBACK_COUNT>>
    /\ UNCHANGED long_unused

LongNext ==
    \/ \E k \in 1..chunk_size : LongArchive(k)
    \/ LongStop("h1")
    \/ \E overflow_checks \in BOOLEAN : LongExport("h1", overflow_checks)

LongSpec == LongInit /\ [][LongNext]_vars

\* The stop of a long session writes its file.
LongExports(c) == pc[c] = "t_take" /\ pc'[c] = "idle"

\* C38: the header's size fields match the data written, for every PCM
\* length: every stop writes its file, the data-size field of the header
\* is the number of PCM bytes and the RIFF size field is 36 more.
C38_HeaderSizesMatchData ==
    [][\A c \in Callers :
          pc[c] = "t_take" /\ pc'[c] # "t_take"
          => /\ LongExports(c)
             /\ u32_value(SubSeq(returned'.value.header, 41, 44)) = returned'.value.pcm_len
             /\ u32_value(SubSeq(returned'.value.header, 5, 8))
                  = limbs_add(limbs(36), returned'.value.pcm_len)]_vars

====
